---- MODULE Spec2Model ----
(***************************************************************************)
(* The discovery loop of the track-explorer extension (src/unnamed/part_002)*)
(* as a state machine: the poll loop handleStates, the explored-tracks      *)
(* registry with its persistence, the enabled flag, and the UI handlers     *)
(* that touch them.  The host player (Spicetify.Player.data) and the wall   *)
(* clock (Date.now) are the environment.                                    *)
(*                                                                         *)
(* Time is kept in milliseconds on a grid of ClockStep.  The loop sleeps    *)
(* readIntervalMS = 100 ms between cycles, far less than ClockStep, so      *)
(* the loop polls between any two things that happen at different clock     *)
(* readings (variable pending): a step of the clock is followed by a cycle  *)
(* before anything else happens, and a host event or a toggle of the flag   *)
(* is followed by a cycle before the clock advances.  A host event is       *)
(* stamped with the clock reading at which it happens, so two events at one *)
(* clock reading carry the same timestamp.                                  *)
(***************************************************************************)
EXTENDS Integers, Sequences, FiniteSets, TLC

VARIABLES
    isEnabled,                  \* part_002:23
    exploredTracks,             \* part_002:24, an array of track ids
    storedExplored,             \* LocalStorage["explore:explored"]
    storedStatus,               \* LocalStorage["explore:status"]
    barActive,                  \* barButton.active
    previousPlayerState,        \* part_002:431
    totalRoughTrackProgress,    \* part_002:432
    currentRoughTrackProgress,  \* part_002:433
    trackJustSaved,             \* part_002:434
    pc,                         \* where discover() is: "wait" in waitUntilReady, "init" in
                                \* main before initializeLocalData, "loop" in the loop of
                                \* handleStates, "dead" once the loop has thrown, "failed"
                                \* once the start-up has thrown
    pasting,                    \* importItems is suspended at await paste()
    playerData,                 \* Spicetify.Player.data
    now,                        \* Date.now()
    pending,                    \* what the loop has not polled yet: "tick", "event" or "none"
    clipboard,                  \* the text in the system clipboard, or Untracked
    \* history variables: they record what happened, the program never reads them
    last,                       \* what the last step did
    sessionMarks,               \* markTrackAsExplored calls since the last reset of the totals
    skippedId,                  \* the track the current session called next() for, if any
    dataStale,                  \* time has passed with the flag off since playerData.timestamp
    prevStale,                  \* the same of previousPlayerState.timestamp
    fresh,                      \* the host started a playback the loop has not polled yet
    anchor,                     \* first snapshot of the current run of one playing track
    boot,                       \* what the start-up has done
    \* waitUntilReady, check by check
    initTries,                  \* part_002:179
    maxTries,                   \* part_002:7
    bumpCount,                  \* part_002:180
    spiceDependencies,          \* part_002:184-199: what the host has loaded
    waitPc,                     \* where waitUntilReady is
    waitLog,                    \* history: warnings shown and sleeps taken
    \* the hotkey settings
    targetHotkey,               \* part_002:791
    stopTimeout,                \* part_002:792: the id setTimeout returned last
    timers,                     \* the timers that are pending: id and time left
    listening,                  \* handleKeyEvent is a listener of keydown and keyup
    combo,                      \* part_002:27: allHotkeys.discovery.combo
    previousCombo,              \* part_002:32: allHotkeys.discovery.previousCombo
    bound,                      \* the combos Mousetrap has bound to the action
    storedCombo,                \* LocalStorage under explore:hotkeys:discovery
    idle,                       \* history: time since the capture began or a key event
    hotkeyLog                   \* history: what the last step of the settings did

\* the state of the wait for the host (part_002:178-219)
waitVars == <<initTries, maxTries, bumpCount, spiceDependencies, waitPc, waitLog>>

\* the state of the hotkey settings (part_002:25-34, 791-792)
hotkeyVars == <<targetHotkey, stopTimeout, timers, listening, combo, previousCombo,
                bound, storedCombo, idle, hotkeyLog>>

vars == <<isEnabled, exploredTracks, storedExplored, storedStatus, barActive,
          previousPlayerState, totalRoughTrackProgress, currentRoughTrackProgress,
          trackJustSaved, pc, pasting, playerData, now, pending, clipboard,
          last, sessionMarks, skippedId, dataStale, prevStale, fresh, anchor, boot,
          waitVars, hotkeyVars>>

loopVars == <<previousPlayerState, totalRoughTrackProgress,
              currentRoughTrackProgress, trackJustSaved>>

----------------------------------------------------------------------------
\* Program constants and bounds of the model

trackProgressThresholdMS == 30000

\* clock steps it takes to reach the threshold
StepsToThreshold == 3
\* clock steps of a run
MaxTicks == 3
\* longest registry the model lets markTrackAsExplored build
MaxReg == 2
\* clock steps of a run that nobody touches the UI in
MaxTicksUnattended == 6

ClockStep == trackProgressThresholdMS \div StepsToThreshold
MaxNow == MaxTicks * ClockStep
MaxNowUnattended == MaxTicksUnattended * ClockStep

TrackIds == {"A", "B"}
None == "none"

\* part_002:7-8
maxTriesAtStart == 200
maxTriesBumpLimit == 4

----------------------------------------------------------------------------
\* Values

\* null (a state, a previous state or Spicetify.Player.data without a track)
Null == [kind |-> "null"]

\* the value of x?.timestamp and x?.trackURI.id on null
Undefined == -1
UndefinedId == "undefined"

\* the required fields of Spicetify.Player.data, one of which may be missing
Fields == {"timestamp", "position_as_of_timestamp", "is_paused"}

\* Spicetify.Player.data with an item that is not a track (an episode): the loop
\* reads nothing but the type of its URI
Episode == [kind |-> "item", type |-> "episode"]

\* Spicetify.Player.data with a track loaded by an event at clock t: complete, or
\* with one required field missing
Loaded(t) ==
    [kind : {"item"}, type : {"track"}, id : TrackIds, is_paused : BOOLEAN,
     timestamp : {t}, missing : {None}]
    \cup [kind : {"item"}, type : {"track"}, id : {"A"}, is_paused : {FALSE},
          timestamp : {t}, missing : Fields]

TimestampOf(s) == IF s = Null THEN Undefined ELSE s.timestamp
IdOf(s) == IF s = Null THEN UndefinedId ELSE s.id
IsPlaying(s) == s # Null /\ s.is_playing

Range(seq) == {seq[i] : i \in 1..Len(seq)}
Includes(seq, x) == x \in Range(seq)
Min(a, b) == IF a < b THEN a ELSE b

\* JSON.stringify of the registry and of the flag
StringifyArray(seq) == [text |-> "array", items |-> seq]
StringifyBool(b) == IF b THEN "true" ELSE "false"

\* what LocalStorage may hold under explore:explored and explore:status when the
\* extension starts: nothing, text that is not what the key expects, or a value
\* the extension saved earlier
Absent == [text |-> "absent"]
Garbage == [text |-> "garbage"]
Empty == [text |-> "empty"]

\* the JSON text of something that is not an array
NotArray == [text |-> "object"]

\* array elements that are not track ids: a string that trackIDRe does not match
\* and a number
Short == "short"
Number == "#7"

StoredExploredAtStart ==
    {Absent, Empty, Garbage, NotArray,
     StringifyArray(<<>>), StringifyArray(<<"A">>), StringifyArray(<<"A", Short>>)}
StoredStatusAtStart == {None, "garbage", "true", "false"}

\* [...new Set(seq)]: the first occurrence of each element, in order
RECURSIVE Dedup(_)
Dedup(seq) ==
    IF seq = <<>> THEN <<>>
    ELSE LET front == Dedup(SubSeq(seq, 1, Len(seq) - 1))
             x == seq[Len(seq)]
         IN IF Includes(front, x) THEN front ELSE Append(front, x)

\* the clipboard of a specification that leaves its content open: paste() may
\* deliver any text
Untracked == [text |-> "untracked"]

\* part_002:711 and 316: JSON.parse; throws on a text that is not JSON
JSONParse(string) ==
    [throws |-> string.text \notin {"array", "object"},
     array |-> string.text = "array",
     items |-> IF string.text = "array" THEN string.items ELSE <<>>]

\* a faulty validation that looks at the first element only
areValidTrackIDsFirstOnly(parsed) ==
    /\ parsed.array
    /\ \A i \in 1..Min(1, Len(parsed.items)) : parsed.items[i] \in TrackIds

\* part_002:19, 239-245: an array whose every element is a string that
\* trackIDRe matches
areValidTrackIDs(parsed) ==
    /\ parsed.array
    /\ \A i \in 1..Len(parsed.items) : parsed.items[i] \in TrackIds

\* what the clipboard may hold when paste() resolves
ClipboardTexts ==
    {Garbage, NotArray,
     StringifyArray(<<"A">>), StringifyArray(<<"B", "B">>),
     StringifyArray(<<"A", Short>>), StringifyArray(<<Number, "B">>)}

\* part_002:710-717: the pasted text after JSON.parse (null where it throws) and
\* areValidTrackIDs
Invalid == [valid |-> FALSE, items |-> <<>>]
Validated(string) ==
    LET parsed == JSONParse(string)
    IN IF ~parsed.throws /\ areValidTrackIDs(parsed)
       THEN [valid |-> TRUE, items |-> parsed.items]
       ELSE Invalid
Clipboards == {Validated(string) : string \in ClipboardTexts}

----------------------------------------------------------------------------
\* History records

Quiet(op) ==
    [op |-> op, mark |-> None, next |-> FALSE, changed |-> FALSE, same |-> FALSE,
     accrual |-> None, stale |-> FALSE, started |-> FALSE, skippedMark |-> FALSE,
     accTotal |-> 0, accCurrent |-> 0]

NotBooted == [ready |-> FALSE, loads |-> 0]

NoAnchor == [span |-> Undefined, base |-> 0, events |-> 0, lag |-> FALSE]

----------------------------------------------------------------------------
\* The cycle of handleStates, step by step (part_002:436-537)

\* a faulty read that does not look at the flag
ReadDataIgnoresFlag(enabled, data) == data

\* part_002:437: the loop reads the host only while the flag is on
ReadData(enabled, data) == IF enabled THEN data ELSE Null

\* part_002:442-446: a track (not an episode, not nothing) is loaded
IsTrack(data) == data # Null /\ data.type = "track"

\* the id of the track loaded in the host, if any
TrackOf(data) == IF IsTrack(data) THEN data.id ELSE UndefinedId

\* a faulty check that looks at the timestamp alone
ThrowsOnTimestampOnly(data) == IsTrack(data) /\ data.missing = "timestamp"

\* a faulty check that also rejects an item that is not a track
ThrowsOnNonTrack(data) ==
    \/ data # Null /\ data.type # "track"
    \/ IsTrack(data) /\ data.missing # None

\* part_002:448-453: a loaded track lacks a required field
Throws(data) == IsTrack(data) /\ data.missing # None

\* a faulty snapshot that takes a paused track for no track
ReadStateSkipsPaused(data) ==
    IF IsTrack(data) /\ ~data.is_paused
    THEN [kind |-> "state", id |-> data.id, is_playing |-> TRUE,
          timestamp |-> data.timestamp]
    ELSE Null

\* part_002:455-460: the snapshot; position_at_ts is stored and never read
ReadState(data) ==
    IF IsTrack(data)
    THEN [kind |-> "state", id |-> data.id, is_playing |-> ~data.is_paused,
          timestamp |-> data.timestamp]
    ELSE Null

\* part_002:465
SameState(prev, state) == TimestampOf(prev) = TimestampOf(state)

\* a faulty accrual that commits the provisional estimate on top of the interval
\* the host reports
AccrueCountsTwice(prev, state, same, total, current, saved, clock) ==
    IF ~saved /\ IsPlaying(prev)
    THEN IF same
         THEN [total |-> total, current |-> clock - prev.timestamp,
               potentialSave |-> TRUE, kind |-> "rough"]
         ELSE IF state # Null
              THEN [total |-> total + current + (state.timestamp - prev.timestamp),
                    current |-> 0, potentialSave |-> TRUE, kind |-> "accurate"]
              ELSE [total |-> total + current,
                    current |-> 0, potentialSave |-> TRUE, kind |-> "stop"]
    ELSE [total |-> total, current |-> current, potentialSave |-> FALSE, kind |-> None]

\* a faulty accrual that subtracts in the wrong order
AccrueSwapsOperands(prev, state, same, total, current, saved, clock) ==
    IF ~saved /\ IsPlaying(prev)
    THEN IF same
         THEN [total |-> total, current |-> clock - prev.timestamp,
               potentialSave |-> TRUE, kind |-> "rough"]
         ELSE IF state # Null
              THEN [total |-> total + (prev.timestamp - state.timestamp),
                    current |-> 0, potentialSave |-> TRUE, kind |-> "accurate"]
              ELSE [total |-> total + current,
                    current |-> 0, potentialSave |-> TRUE, kind |-> "stop"]
    ELSE [total |-> total, current |-> current, potentialSave |-> FALSE, kind |-> None]

\* a faulty accrual that goes on while the previous snapshot is paused
AccrueIgnoresPause(prev, state, same, total, current, saved, clock) ==
    IF ~saved /\ prev # Null
    THEN IF same
         THEN [total |-> total, current |-> clock - prev.timestamp,
               potentialSave |-> TRUE, kind |-> "rough"]
         ELSE IF state # Null
              THEN [total |-> total + (state.timestamp - prev.timestamp),
                    current |-> 0, potentialSave |-> TRUE, kind |-> "accurate"]
              ELSE [total |-> total + current,
                    current |-> 0, potentialSave |-> TRUE, kind |-> "stop"]
    ELSE [total |-> total, current |-> current, potentialSave |-> FALSE, kind |-> None]

\* a faulty accrual that adds each provisional estimate to the one before
AccrueSumsProvisional(prev, state, same, total, current, saved, clock) ==
    IF ~saved /\ IsPlaying(prev)
    THEN IF same
         THEN [total |-> total, current |-> current + (clock - prev.timestamp),
               potentialSave |-> TRUE, kind |-> "rough"]
         ELSE IF state # Null
              THEN [total |-> total + (state.timestamp - prev.timestamp),
                    current |-> 0, potentialSave |-> TRUE, kind |-> "accurate"]
              ELSE [total |-> total + current,
                    current |-> 0, potentialSave |-> TRUE, kind |-> "stop"]
    ELSE [total |-> total, current |-> current, potentialSave |-> FALSE, kind |-> None]

\* a faulty accrual that keeps the provisional estimate after a host event
AccrueKeepsProvisional(prev, state, same, total, current, saved, clock) ==
    IF ~saved /\ IsPlaying(prev)
    THEN IF same
         THEN [total |-> total, current |-> clock - prev.timestamp,
               potentialSave |-> TRUE, kind |-> "rough"]
         ELSE IF state # Null
              THEN [total |-> total + (state.timestamp - prev.timestamp),
                    current |-> current, potentialSave |-> TRUE, kind |-> "accurate"]
              ELSE [total |-> total + current,
                    current |-> 0, potentialSave |-> TRUE, kind |-> "stop"]
    ELSE [total |-> total, current |-> current, potentialSave |-> FALSE, kind |-> None]

\* a faulty accrual that forgets the estimate when playback stops
AccrueDropsEstimateOnStop(prev, state, same, total, current, saved, clock) ==
    IF ~saved /\ IsPlaying(prev)
    THEN IF same
         THEN [total |-> total, current |-> clock - prev.timestamp,
               potentialSave |-> TRUE, kind |-> "rough"]
         ELSE IF state # Null
              THEN [total |-> total + (state.timestamp - prev.timestamp),
                    current |-> 0, potentialSave |-> TRUE, kind |-> "accurate"]
              ELSE [total |-> total,
                    current |-> 0, potentialSave |-> TRUE, kind |-> "stop"]
    ELSE [total |-> total, current |-> current, potentialSave |-> FALSE, kind |-> None]

\* a faulty accrual that commits a host event too late for the threshold check
\* of its cycle
AccrueCommitsAfterCheck(prev, state, same, total, current, saved, clock) ==
    IF ~saved /\ IsPlaying(prev)
    THEN IF same
         THEN [total |-> total, current |-> clock - prev.timestamp,
               potentialSave |-> TRUE, kind |-> "rough"]
         ELSE IF state # Null
              THEN [total |-> total + (state.timestamp - prev.timestamp),
                    current |-> 0, potentialSave |-> FALSE, kind |-> "accurate"]
              ELSE [total |-> total + current,
                    current |-> 0, potentialSave |-> TRUE, kind |-> "stop"]
    ELSE [total |-> total, current |-> current, potentialSave |-> FALSE, kind |-> None]

\* part_002:475-513: the accrual step
Accrue(prev, state, same, total, current, saved, clock) ==
    IF ~saved /\ IsPlaying(prev)
    THEN IF same
         THEN [total |-> total, current |-> clock - prev.timestamp,
               potentialSave |-> TRUE, kind |-> "rough"]
         ELSE IF state # Null
              THEN [total |-> total + (state.timestamp - prev.timestamp),
                    current |-> 0, potentialSave |-> TRUE, kind |-> "accurate"]
              ELSE [total |-> total + current,
                    current |-> 0, potentialSave |-> TRUE, kind |-> "stop"]
    ELSE [total |-> total, current |-> current, potentialSave |-> FALSE, kind |-> None]

\* a faulty check that wants the threshold exceeded
ThresholdMetStrict(acc) ==
    acc.potentialSave /\ acc.current + acc.total > trackProgressThresholdMS

\* a faulty check that looks at the committed total alone
ThresholdMetOnTotalOnly(acc) ==
    acc.potentialSave /\ acc.total >= trackProgressThresholdMS

\* part_002:515-518
ThresholdMet(acc) ==
    acc.potentialSave /\ acc.current + acc.total >= trackProgressThresholdMS

\* part_002:416
markTrackAsExplored(tracks, id) == Append(tracks, id)

\* a faulty version that does not remember the mark
SavedAfterMarkForgets(saved, doMark) == saved

\* part_002:521
SavedAfterMark(saved, doMark) == saved \/ doMark

\* a faulty test that sees a change only from one snapshot to another
TrackChangedBetweenTracks(prev, state, same) ==
    ~same /\ prev # Null /\ state # Null /\ state.id # prev.id

\* part_002:524
TrackChanged(prev, state, same) == ~same /\ IdOf(state) # IdOf(prev)

\* a faulty skip that does not wait for a change of track
SkipsNewIgnoresChange(changed, tracks, state) == Includes(tracks, IdOf(state))

\* part_002:530
SkipsNew(changed, tracks, state) == changed /\ Includes(tracks, IdOf(state))

\* a faulty merge that keeps the clipboard's ids only
MergeReplaces(tracks, items) == Dedup(items)

\* a faulty merge that works from the registry without its newest id
MergeDropsLast(tracks, items) ==
    Dedup(SubSeq(tracks, 1, Len(tracks) - 1) \o items)

\* a faulty merge that removes the repeats of the registry only
MergeKeepsRepeats(tracks, items) == Dedup(tracks) \o items

\* part_002:718
Merge(tracks, items) == Dedup(tracks \o items)

\* part_002:699-700 and 709-717: what paste() delivers when the clipboard holds
\* what exportItems copied of the registry `tracks`: the JSON text of the array,
\* parsed back and validated
Exported(tracks) == Validated(StringifyArray(tracks))

----------------------------------------------------------------------------
\* The parts of the program that a specification leaves out stay as they are
\* when discover() starts

\* part_002:184-199: what the host has loaded of the methods waitUntilReady
\* looks for; showNotification is one of them, and the one log() calls
NothingLoaded == [all |-> FALSE, showNotification |-> FALSE]
NotificationLoaded == [all |-> FALSE, showNotification |-> TRUE]
AllLoaded == [all |-> TRUE, showNotification |-> TRUE]

\* part_002:7, 179-180: the counters of waitUntilReady when it is called
WaitCounters ==
    /\ initTries = 1
    /\ maxTries = maxTriesAtStart
    /\ bumpCount = 0
    /\ waitLog = [warnings |-> 0, sleeps |-> 0, error |-> None]

\* waitUntilReady taken as one step: its loop is not looked into
WaitNotStarted ==
    /\ WaitCounters
    /\ spiceDependencies = AllLoaded
    /\ waitPc = "idle"

\* part_002:18
editTimeoutAfter == 3000

\* part_002:20: the modifiers; a combo has at most one key more than these
modifiers == <<"Control", "Shift", "Alt", "Meta">>

\* a combo such as "ctrl+shift+plus" is kept as the keys that "+" joins, and the
\* empty combo "" as no keys
Combo(keys) == [keys |-> keys]

\* part_002:15, 27: the combo of the hotkey where the platform is not a Mac
defaultCombo == Combo(<<"ctrl", "d">>)

\* part_002:792: stopTimeout holds null; the ids setTimeout returns are positive
NoTimer == 0

\* nothing done in the settings yet
NoHotkeyLog == [op |-> "none", event |-> None, stops |-> 0, nullStop |-> FALSE]

\* part_002:25-34, 791-792: the hotkey as the module declares it
HotkeysNotStarted ==
    /\ targetHotkey = None
    /\ stopTimeout = NoTimer
    /\ timers = {}
    /\ listening = FALSE
    /\ combo = defaultCombo
    /\ previousCombo = Null
    /\ bound = {}
    /\ storedCombo = Absent
    /\ idle = 0
    /\ hotkeyLog = NoHotkeyLog

\* part_002:709: where the clipboard is not tracked it holds what the user put
\* there, the export of the registry included
Pasted(tracks) ==
    IF clipboard = Untracked THEN Clipboards \cup {Exported(tracks)}
    ELSE {Validated(clipboard)}

\* a faulty save that writes nothing
syncExploredDataSkipped(tracks) == storedExplored

\* part_002:269-271: the value syncExploredData leaves under explore:explored
syncExploredData(tracks) == StringifyArray(tracks)

\* part_002:259-260: the value syncEnabledData leaves under explore:status
syncEnabledData(enabled) == StringifyBool(enabled)

----------------------------------------------------------------------------
\* The start-up (part_002:249, 302-386, 1006-1013)

\* a faulty load that takes a saved value over only if it is truthy
StatusLoadedDropsFalse(string, default) ==
    IF string = "true" THEN TRUE ELSE default

\* part_002:337-351 with initLocalKey (302-330), fix = true: a saved boolean is
\* taken over, anything else gives the default, the initial isEnabled
StatusLoaded(string, default) ==
    IF string = "true" THEN TRUE
    ELSE IF string = "false" THEN FALSE
    ELSE default

\* part_002:353-367 with initLocalKey (302-330), fix = false: a value that is
\* null or the empty string (!string, 304) gives the empty registry, a saved
\* array of track ids is taken over, anything else throws
ExploredLoaded(stored) ==
    IF stored \in {Absent, Empty} THEN [throws |-> FALSE, tracks |-> <<>>]
    ELSE LET parsed == JSONParse(stored)
         IN IF ~parsed.throws /\ areValidTrackIDs(parsed)
            THEN [throws |-> FALSE, tracks |-> parsed.items]
            ELSE [throws |-> TRUE, tracks |-> <<>>]

----------------------------------------------------------------------------
\* History of a cycle

AnchorAfter(prev, state, same, saved, totalAfter) ==
    IF ~IsPlaying(state) THEN NoAnchor
    ELSE IF IsPlaying(prev) /\ prev.id = state.id /\ anchor # NoAnchor
         THEN IF same THEN anchor
              ELSE [anchor EXCEPT !.span = @ + (state.timestamp - prev.timestamp),
                                  !.events = Min(@ + 1, 2), !.lag = @ \/ saved]
         ELSE [span |-> 0, base |-> totalAfter, events |-> 0, lag |-> FALSE]

\* The marks of the session the cycle ends count with that session: a second one
\* stays on record, otherwise the reset starts the count of the next session.
SessionMarksAfter(doMark, changed) ==
    LET n == Min(sessionMarks + (IF doMark THEN 1 ELSE 0), 2)
    IN IF changed /\ n < 2 THEN 0 ELSE n

----------------------------------------------------------------------------
\* Initial state: discover() starts with the defaults of part_002:23-24 and
\* whatever LocalStorage holds, and awaits waitUntilReady (part_002:249)

Init ==
    /\ WaitNotStarted
    /\ HotkeysNotStarted
    /\ clipboard = Untracked
    /\ isEnabled = TRUE
    /\ exploredTracks = <<>>
    /\ storedExplored \in StoredExploredAtStart
    /\ storedStatus \in StoredStatusAtStart
    /\ barActive = TRUE
    /\ previousPlayerState = Null
    /\ totalRoughTrackProgress = 0
    /\ currentRoughTrackProgress = 0
    /\ trackJustSaved = FALSE
    /\ pc = "wait"
    /\ pasting = FALSE
    /\ playerData = Null
    /\ now = 0
    /\ pending = "tick"
    /\ last = Quiet("init")
    /\ boot = NotBooted
    /\ sessionMarks = 0
    /\ skippedId = None
    /\ dataStale = FALSE
    /\ prevStale = FALSE
    /\ fresh = FALSE
    /\ anchor = NoAnchor

\* a faulty wait that returns when it has run out of tries
waitUntilReadyGivesUp ==
    /\ UNCHANGED <<clipboard, waitVars, hotkeyVars>>
    /\ pc = "wait"
    /\ \E loaded \in BOOLEAN :
          /\ pc' = "init"
          /\ boot' = [boot EXCEPT !.ready = loaded]
    /\ last' = Quiet("other")
    /\ UNCHANGED <<isEnabled, exploredTracks, storedExplored, storedStatus, barActive,
                   loopVars, pasting, playerData, now, pending, sessionMarks, skippedId,
                   dataStale, prevStale, fresh, anchor>>

\* part_002:178-219, awaited at 249: the host's methods are all there at some
\* check and waitUntilReady returns, or they never are and it throws
waitUntilReady ==
    /\ UNCHANGED <<clipboard, waitVars, hotkeyVars>>
    /\ pc = "wait"
    /\ \E loaded \in BOOLEAN :
          /\ pc' = IF loaded THEN "init" ELSE "failed"
          /\ boot' = [boot EXCEPT !.ready = loaded]
    /\ last' = Quiet("other")
    /\ UNCHANGED <<isEnabled, exploredTracks, storedExplored, storedStatus, barActive,
                   loopVars, pasting, playerData, now, pending, sessionMarks, skippedId,
                   dataStale, prevStale, fresh, anchor>>

\* part_002:336-386 called from main (1007): the flag is loaded and saved, then
\* the registry is loaded and saved or the load throws; main goes on to register
\* the UI and to call handleStates (1008-1010)
initializeLocalData ==
    /\ UNCHANGED <<clipboard, waitVars, hotkeyVars>>
    /\ pc = "init"
    /\ LET status == StatusLoaded(storedStatus, isEnabled)
           explored == ExploredLoaded(storedExplored)
       IN /\ isEnabled' = status
          /\ storedStatus' = syncEnabledData(status)
          /\ barActive' = status
          /\ IF explored.throws
             THEN /\ pc' = "failed"
                  /\ UNCHANGED <<exploredTracks, storedExplored>>
             ELSE /\ pc' = "loop"
                  /\ exploredTracks' = explored.tracks
                  /\ storedExplored' = syncExploredData(explored.tracks)
    /\ boot' = [boot EXCEPT !.loads = @ + 1]
    /\ last' = Quiet("other")
    /\ UNCHANGED <<loopVars, pasting, playerData, now, pending, sessionMarks, skippedId,
                   dataStale, prevStale, fresh, anchor>>

----------------------------------------------------------------------------
\* One cycle of the loop of handleStates (part_002:436-537)

handleStates ==
    /\ UNCHANGED <<clipboard, waitVars, hotkeyVars>>
    /\ pc = "loop"
    /\ LET data == ReadData(isEnabled, playerData) IN
       IF Throws(data)
       THEN /\ pc' = "dead"
            /\ last' = Quiet("throw")
            /\ pending' = "none"
            /\ UNCHANGED <<isEnabled, exploredTracks, storedExplored, storedStatus,
                           barActive, loopVars, pasting, playerData, now,
                           sessionMarks, skippedId, dataStale, prevStale, fresh, anchor,
                           boot>>
       ELSE LET state == ReadState(data)
                prev == previousPlayerState
                same == SameState(prev, state)
                acc == Accrue(prev, state, same, totalRoughTrackProgress,
                              currentRoughTrackProgress, trackJustSaved, now)
                doMark == ThresholdMet(acc)
                tracks == IF doMark THEN markTrackAsExplored(exploredTracks, prev.id)
                          ELSE exploredTracks
                saved == SavedAfterMark(trackJustSaved, doMark)
                changed == TrackChanged(prev, state, same)
                doNext == SkipsNew(changed, tracks, state)
                totalAfter == IF changed THEN 0 ELSE acc.total
            IN /\ doMark => Len(exploredTracks) < MaxReg
               /\ exploredTracks' = tracks
               /\ storedExplored' = IF doMark THEN syncExploredData(tracks)
                                    ELSE storedExplored
               /\ totalRoughTrackProgress' = totalAfter
               /\ currentRoughTrackProgress' = IF changed THEN 0 ELSE acc.current
               /\ trackJustSaved' = IF changed THEN FALSE ELSE saved
               /\ previousPlayerState' = state
               /\ pc' = "loop"
               /\ pending' = "none"
               /\ last' = [op |-> "cycle",
                           mark |-> IF doMark THEN prev.id ELSE None,
                           next |-> doNext,
                           changed |-> IdOf(state) # IdOf(prev),
                           same |-> same,
                           accrual |-> acc.kind,
                           stale |-> acc.kind \in {"rough", "accurate"} /\ prevStale,
                           started |-> state # Null /\ fresh,
                           skippedMark |-> doMark /\ prev.id = skippedId,
                           accTotal |-> acc.total,
                           accCurrent |-> acc.current]
               /\ sessionMarks' = SessionMarksAfter(doMark, changed)
               /\ skippedId' = IF changed THEN (IF doNext THEN state.id ELSE None)
                               ELSE skippedId
               /\ fresh' = IF state # Null THEN FALSE ELSE fresh
               /\ prevStale' = (state # Null /\ dataStale)
               /\ anchor' = AnchorAfter(prev, state, same, trackJustSaved, totalAfter)
               /\ UNCHANGED <<isEnabled, storedStatus, barActive, pasting,
                              playerData, now, dataStale, boot>>

----------------------------------------------------------------------------
\* The environment: the wall clock and the host player.  Only the loop reads
\* them, so they are followed for as long as the loop lives.

EnvReady == pending # "tick" \/ pc = "dead"

\* Date.now() advances by one step; the loop wakes up before anything else happens
Tick ==
    /\ UNCHANGED <<clipboard, waitVars, hotkeyVars>>
    /\ pc = "loop"
    /\ pending = "none"
    /\ now < MaxNow
    /\ now' = now + ClockStep
    /\ pending' = "tick"
    /\ dataStale' = (dataStale \/ (~isEnabled /\ playerData # Null))
    /\ last' = Quiet("other")
    /\ UNCHANGED <<isEnabled, exploredTracks, storedExplored, storedStatus, barActive,
                   loopVars, pc, pasting, playerData, sessionMarks, skippedId,
                   prevStale, fresh, anchor, boot>>

\* The host registers an event: playback stops, or an item is loaded, restarted,
\* paused, resumed or sought.  The event is stamped with the clock.  starts says
\* that the event begins a playback of its track from the start.
HostEvent ==
    /\ UNCHANGED <<clipboard, waitVars, hotkeyVars>>
    /\ pc = "loop"
    /\ pending # "tick"
    /\ pending' = "event"
    /\ \E d \in Loaded(now) \cup {Episode, Null}, starts \in BOOLEAN :
          /\ d # playerData \/ starts
          /\ starts => IsTrack(d)
          /\ (IsTrack(d) /\ TrackOf(d) # TrackOf(playerData)) => starts
          /\ playerData' = d
          /\ dataStale' = FALSE
          /\ fresh' = IF IsTrack(d)
                      THEN (starts \/ (fresh /\ TrackOf(d) = TrackOf(playerData)))
                      ELSE FALSE
    /\ last' = Quiet("other")
    /\ UNCHANGED <<isEnabled, exploredTracks, storedExplored, storedStatus, barActive,
                   loopVars, pc, pasting, now, sessionMarks, skippedId,
                   prevStale, anchor, boot>>

----------------------------------------------------------------------------
\* The UI handlers

\* a faulty toggle that also resets the session of the loop
onBarButtonPressEndsSession ==
    /\ UNCHANGED <<clipboard, waitVars, hotkeyVars>>
    /\ EnvReady
    /\ isEnabled' = ~isEnabled
    /\ pending' = IF pc = "loop" THEN "event" ELSE pending
    /\ storedStatus' = syncEnabledData(isEnabled')
    /\ barActive' = isEnabled'
    /\ totalRoughTrackProgress' = 0
    /\ currentRoughTrackProgress' = 0
    /\ trackJustSaved' = FALSE
    /\ last' = Quiet("other")
    /\ UNCHANGED <<exploredTracks, storedExplored, previousPlayerState, pc, pasting,
                   playerData, now, sessionMarks, skippedId, dataStale, prevStale, fresh,
                   anchor, boot>>

\* part_002:561-564 with syncEnabledData (259-262) and syncBarButtonState (570-573)
onBarButtonPress ==
    /\ UNCHANGED <<clipboard, waitVars, hotkeyVars>>
    /\ EnvReady
    /\ isEnabled' = ~isEnabled
    /\ pending' = IF pc = "loop" THEN "event" ELSE pending
    /\ storedStatus' = syncEnabledData(isEnabled')
    /\ barActive' = isEnabled'
    /\ last' = Quiet("other")
    /\ UNCHANGED <<exploredTracks, storedExplored, loopVars, pc, pasting, playerData,
                   now, sessionMarks, skippedId, dataStale, prevStale, fresh, anchor,
                   boot>>

\* part_002:708-709: importItems up to await paste()
importItemsCall ==
    /\ UNCHANGED <<clipboard, waitVars, hotkeyVars>>
    /\ EnvReady
    /\ ~pasting
    /\ pasting' = TRUE
    /\ last' = Quiet("other")
    /\ UNCHANGED <<isEnabled, exploredTracks, storedExplored, storedStatus, barActive,
                   loopVars, pc, playerData, now, pending, sessionMarks, skippedId,
                   dataStale, prevStale, fresh, anchor, boot>>

\* part_002:710-725: importItems from the resolution of paste() on
importItemsResume ==
    /\ UNCHANGED <<clipboard, waitVars, hotkeyVars>>
    /\ EnvReady
    /\ pasting
    /\ pasting' = FALSE
    /\ \E clip \in Pasted(exploredTracks) :
          IF clip.valid
          THEN /\ exploredTracks' = Merge(exploredTracks, clip.items)
               /\ storedExplored' = syncExploredData(exploredTracks')
          ELSE UNCHANGED <<exploredTracks, storedExplored>>
    /\ last' = Quiet("other")
    /\ UNCHANGED <<isEnabled, storedStatus, barActive, loopVars, pc, playerData,
                   now, pending, sessionMarks, skippedId, dataStale, prevStale, fresh,
                   anchor, boot>>

\* part_002:732-736
clearItems ==
    /\ UNCHANGED <<clipboard, waitVars, hotkeyVars>>
    /\ EnvReady
    /\ exploredTracks' = <<>>
    /\ storedExplored' = syncExploredData(exploredTracks')
    /\ last' = Quiet("other")
    /\ UNCHANGED <<isEnabled, storedStatus, barActive, loopVars, pc, pasting,
                   playerData, now, pending, sessionMarks, skippedId, dataStale, prevStale,
                   fresh, anchor, boot>>

\* part_002:698-702: the registry goes to the clipboard, the program's state stays
exportItems ==
    /\ EnvReady
    /\ clipboard' = IF clipboard = Untracked THEN Untracked
                    ELSE StringifyArray(exploredTracks)
    /\ UNCHANGED <<waitVars, hotkeyVars>>
    /\ last' = Quiet("other")
    /\ UNCHANGED <<isEnabled, exploredTracks, storedExplored, storedStatus, barActive,
                   loopVars, pc, pasting, playerData, now, pending, sessionMarks,
                   skippedId, dataStale, prevStale, fresh, anchor, boot>>

Next ==
    \/ waitUntilReady
    \/ initializeLocalData
    \/ handleStates
    \/ Tick
    \/ HostEvent
    \/ onBarButtonPress
    \/ importItemsCall
    \/ importItemsResume
    \/ clearItems
    \/ exportItems

Spec == Init /\ [][Next]_vars

----------------------------------------------------------------------------
\* The data buttons of the settings with the clipboard tracked: the start-up has
\* completed, nothing plays, and the user copies texts and presses Export,
\* Import and Clear (part_002:698-750)

RegistriesAtStart == {<<>>, <<"A">>, <<"B", "A">>}

InitClipboard ==
    /\ WaitNotStarted
    /\ HotkeysNotStarted
    /\ clipboard \in ClipboardTexts
    /\ isEnabled = TRUE
    /\ exploredTracks \in RegistriesAtStart
    /\ storedExplored = syncExploredData(exploredTracks)
    /\ storedStatus = syncEnabledData(TRUE)
    /\ barActive = TRUE
    /\ previousPlayerState = Null
    /\ totalRoughTrackProgress = 0
    /\ currentRoughTrackProgress = 0
    /\ trackJustSaved = FALSE
    /\ pc = "loop"
    /\ pasting = FALSE
    /\ playerData = Null
    /\ now = 0
    /\ pending = "none"
    /\ last = Quiet("init")
    /\ boot = [ready |-> TRUE, loads |-> 1]
    /\ sessionMarks = 0
    /\ skippedId = None
    /\ dataStale = FALSE
    /\ prevStale = FALSE
    /\ fresh = FALSE
    /\ anchor = NoAnchor

\* the user copies a text somewhere
ClipboardChange ==
    /\ clipboard' \in ClipboardTexts
    /\ last' = Quiet("copy")
    /\ UNCHANGED <<isEnabled, exploredTracks, storedExplored, storedStatus, barActive,
                   loopVars, pc, pasting, playerData, now, pending, sessionMarks,
                   skippedId, dataStale, prevStale, fresh, anchor, boot, waitVars,
                   hotkeyVars>>

NextClipboard ==
    \/ ClipboardChange
    \/ exportItems
    \/ importItemsCall
    \/ importItemsResume
    \/ clearItems

SpecClipboard == InitClipboard /\ [][NextClipboard]_vars

----------------------------------------------------------------------------
\* The extension left to itself: the start-up has completed with the flag on,
\* and from then on only the loop, the clock and the host act, for a longer time
\* than in Spec.

InitUnattended ==
    /\ WaitNotStarted
    /\ HotkeysNotStarted
    /\ clipboard = Untracked
    /\ isEnabled = TRUE
    /\ exploredTracks = <<>>
    /\ storedExplored = syncExploredData(exploredTracks)
    /\ storedStatus = syncEnabledData(isEnabled)
    /\ barActive = isEnabled
    /\ previousPlayerState = Null
    /\ totalRoughTrackProgress = 0
    /\ currentRoughTrackProgress = 0
    /\ trackJustSaved = FALSE
    /\ pc = "loop"
    /\ pasting = FALSE
    /\ playerData = Null
    /\ now = 0
    /\ pending = "tick"
    /\ last = Quiet("init")
    /\ boot = [ready |-> TRUE, loads |-> 1]
    /\ sessionMarks = 0
    /\ skippedId = None
    /\ dataStale = FALSE
    /\ prevStale = FALSE
    /\ fresh = FALSE
    /\ anchor = NoAnchor

\* Date.now() advances by one step.  The loop polls before the next step, but
\* the host may register an event at the new reading before the loop has
\* polled: the last estimate of the loop may lag behind the event by up to a step.
TickUnattended ==
    /\ UNCHANGED <<clipboard, waitVars, hotkeyVars>>
    /\ pc = "loop"
    /\ pending = "none"
    /\ now < MaxNowUnattended
    /\ now' = now + ClockStep
    /\ pending' = "event"
    /\ last' = Quiet("other")
    /\ UNCHANGED <<isEnabled, exploredTracks, storedExplored, storedStatus, barActive,
                   loopVars, pc, pasting, playerData, sessionMarks, skippedId,
                   dataStale, prevStale, fresh, anchor, boot>>

NextUnattended ==
    \/ handleStates
    \/ TickUnattended
    \/ HostEvent

SpecUnattended == InitUnattended /\ [][NextUnattended]_vars

----------------------------------------------------------------------------
\* waitUntilReady of part_002 check by check (178-219), from the call at 249

InitWait ==
    /\ WaitCounters
    /\ spiceDependencies \in {NothingLoaded, NotificationLoaded, AllLoaded}
    /\ waitPc = "check"
    /\ HotkeysNotStarted
    /\ clipboard = Untracked
    /\ isEnabled = TRUE
    /\ exploredTracks = <<>>
    /\ storedExplored = Absent
    /\ storedStatus = None
    /\ barActive = TRUE
    /\ previousPlayerState = Null
    /\ totalRoughTrackProgress = 0
    /\ currentRoughTrackProgress = 0
    /\ trackJustSaved = FALSE
    /\ pc = "wait"
    /\ pasting = FALSE
    /\ playerData = Null
    /\ now = 0
    /\ pending = "tick"
    /\ last = Quiet("init")
    /\ boot = NotBooted
    /\ sessionMarks = 0
    /\ skippedId = None
    /\ dataStale = FALSE
    /\ prevStale = FALSE
    /\ fresh = FALSE
    /\ anchor = NoAnchor

\* part_002:183-218: one pass of the loop.  log(Level.WARNING, ...) calls
\* Spicetify.showNotification (165-170), which throws a TypeError out of
\* waitUntilReady when the host has not loaded it
waitUntilReadyCheck ==
    /\ waitPc = "check"
    /\ IF spiceDependencies.all
       THEN /\ waitPc' = "returned"
            /\ pc' = "init"
            /\ boot' = [boot EXCEPT !.ready = TRUE]
            /\ UNCHANGED <<initTries, maxTries, bumpCount, waitLog>>
       ELSE IF initTries < maxTries
       THEN /\ initTries' = initTries + 1
            /\ waitLog' = [waitLog EXCEPT !.sleeps = @ + 1]
            /\ UNCHANGED <<maxTries, bumpCount, waitPc, pc, boot>>
       ELSE IF bumpCount < maxTriesBumpLimit
       THEN /\ bumpCount' = bumpCount + 1
            /\ IF spiceDependencies.showNotification
               THEN /\ waitLog' = [waitLog EXCEPT !.warnings = @ + 1]
                    /\ maxTries' = maxTries * 2
                    /\ UNCHANGED <<waitPc, pc>>
               ELSE /\ waitLog' = [waitLog EXCEPT !.error = "TypeError"]
                    /\ waitPc' = "thrown"
                    /\ pc' = "failed"
                    /\ UNCHANGED maxTries
            /\ UNCHANGED <<initTries, boot>>
       ELSE /\ waitLog' = [waitLog EXCEPT !.error = "Error"]
            /\ waitPc' = "thrown"
            /\ pc' = "failed"
            /\ UNCHANGED <<initTries, maxTries, bumpCount, boot>>
    /\ last' = Quiet("other")
    /\ UNCHANGED <<spiceDependencies, hotkeyVars, clipboard, isEnabled, exploredTracks,
                   storedExplored, storedStatus, barActive, loopVars, pasting,
                   playerData, now, pending, sessionMarks, skippedId, dataStale,
                   prevStale, fresh, anchor>>

\* the host loads more of its methods while waitUntilReady sleeps
HostLoads ==
    /\ waitPc = "check"
    /\ \E loaded \in {NotificationLoaded, AllLoaded} :
          /\ spiceDependencies # loaded
          /\ ~spiceDependencies.all
          /\ spiceDependencies' = loaded
    /\ last' = Quiet("other")
    /\ UNCHANGED <<initTries, maxTries, bumpCount, waitPc, waitLog, hotkeyVars,
                   clipboard, isEnabled, exploredTracks, storedExplored, storedStatus,
                   barActive, loopVars, pc, pasting, playerData, now, pending,
                   sessionMarks, skippedId, dataStale, prevStale, fresh, anchor, boot>>

NextWait ==
    \/ waitUntilReadyCheck
    \/ HostLoads

SpecWait == InitWait /\ [][NextWait]_vars

----------------------------------------------------------------------------
\* The hotkey of the settings (part_002:273-290, 369-406, 791-905)

\* JSON.stringify of a combo (282)
StringifyCombo(c) == [text |-> "string", keys |-> c.keys]

\* the JSON text of a number
NumberText == [text |-> "number"]

\* what LocalStorage may hold under explore:hotkeys:discovery when the program
\* starts: nothing, the empty string, text that is not JSON, JSON of something
\* that is not a string, and the JSON of a string
StoredComboAtStart ==
    {Absent, Empty, Garbage, NumberText,
     StringifyCombo(Combo(<<>>)),
     StringifyCombo(Combo(<<"ctrl", "k">>)),
     StringifyCombo(Combo(<<"ctrl", "">>)),
     StringifyCombo(Combo(<<"ctrl", "meta", "shift", "alt", "k", "j">>))}

\* part_002:393-406; hotkey is what JSON.parse returned, a text record
validateCombo(hotkey) ==
    /\ hotkey.text = "string"
    /\ \/ hotkey.keys = <<>>
       \/ /\ Len(hotkey.keys) <= Len(modifiers) + 1
          /\ \A i \in 1..Len(hotkey.keys) : hotkey.keys[i] # ""

\* the state of the hotkey that the handlers of the settings pass along; threw
\* says that the handler has ended in a TypeError
HotkeyState ==
    [targetHotkey |-> targetHotkey, stopTimeout |-> stopTimeout, timers |-> timers,
     listening |-> listening, combo |-> combo, previousCombo |-> previousCombo,
     bound |-> bound, storedCombo |-> storedCombo, stops |-> 0, threw |-> FALSE]

\* faulty: the previous combo stays bound
syncHotkeyDataKeepsBinding(h) ==
    [h EXCEPT !.storedCombo = StringifyCombo(h.combo),
              !.bound = h.bound \cup {h.combo},
              !.previousCombo = h.combo]

\* part_002:279-290
syncHotkeyData(h) ==
    [h EXCEPT !.storedCombo = StringifyCombo(h.combo),
              !.bound = (IF h.previousCombo # Null
                         THEN h.bound \ {h.previousCombo}
                         ELSE h.bound) \cup {h.combo},
              !.previousCombo = h.combo]

\* clearTimeout: a pending timer of that id is dropped
clearTimeout(ts, id) == {t \in ts : t.id # id}

\* the id of the next timer: one that no pending timer has and that stopTimeout
\* does not hold
NewTimerId(ts, old) ==
    CHOOSE n \in 1..(Cardinality(ts) + 2) :
        /\ n # old
        /\ \A t \in ts : t.id # n
        /\ \A m \in 1..(n - 1) : m = old \/ \E t \in ts : t.id = m

\* stopTimeout = setTimeout(stopCapturingHotkey, editTimeoutAfter) (826, 840)
setStopTimeout(h) ==
    [h EXCEPT !.stopTimeout = NewTimerId(h.timers, h.stopTimeout),
              !.timers = h.timers \cup {[id |-> NewTimerId(h.timers, h.stopTimeout),
                                          left |-> editTimeoutAfter]}]

\* faulty: the timer is left pending
stopCapturingHotkeyKeepsTimer(h) ==
    IF h.targetHotkey = None
    THEN [h EXCEPT !.listening = FALSE, !.stops = @ + 1, !.threw = TRUE]
    ELSE [h EXCEPT !.listening = FALSE, !.stops = @ + 1, !.targetHotkey = None]

\* part_002:848-859; with targetHotkey null, targetData is undefined and the
\* access to targetData.editButton (854) throws after the first three statements
stopCapturingHotkey(h) ==
    IF h.targetHotkey = None
    THEN [h EXCEPT !.timers = clearTimeout(h.timers, h.stopTimeout),
                   !.listening = FALSE, !.stops = @ + 1, !.threw = TRUE]
    ELSE [h EXCEPT !.timers = clearTimeout(h.timers, h.stopTimeout),
                   !.listening = FALSE, !.stops = @ + 1, !.targetHotkey = None]

\* part_002:833-841
startCapturingHotkey(h) == setStopTimeout([h EXCEPT !.listening = TRUE])

\* the key events of the model: the Control key, a letter and the plus key of the
\* number pad, pressed or released, with Control held or not
KeyEvents ==
    {[type |-> t, key |-> k, ctrlKey |-> c] :
        t \in {"keydown", "keyup"}, k \in {"Control", "k", "+"}, c \in BOOLEAN}

\* part_002:91-127 for keydown and keyup: MAP[17], KEYCODE_MAP[107], and the
\* lower-case letter
characterFromEvent(e) == IF e.key = "Control" THEN "ctrl" ELSE e.key

\* part_002:805-809: the modifiers held, of which the events have Control alone
Held(e) == IF e.ctrlKey THEN <<"ctrl">> ELSE <<>>

IsModifier(key) == \E i \in 1..Len(modifiers) : modifiers[i] = key

\* part_002:811-816: the combo of a keydown of a key that is no modifier
Captured(e) ==
    Combo(Append(Held(e), IF characterFromEvent(e) = "+"
                          THEN "plus"
                          ELSE characterFromEvent(e)))

\* part_002:801-827; with targetHotkey null, targetData is undefined and the
\* handler throws at 816 or 824 with nothing changed
handleKeyEvent(h, e) ==
    IF h.targetHotkey = None
    THEN [h EXCEPT !.threw = TRUE]
    ELSE IF e.type = "keydown" /\ ~IsModifier(e.key)
    THEN stopCapturingHotkey(syncHotkeyData([h EXCEPT !.combo = Captured(e)]))
    ELSE setStopTimeout([h EXCEPT !.timers = clearTimeout(h.timers, h.stopTimeout)])

\* part_002:888-895: the click on Edit
editClick(h) ==
    IF h.targetHotkey # None
    THEN stopCapturingHotkey(h)
    ELSE startCapturingHotkey([h EXCEPT !.targetHotkey = "discovery"])

\* part_002:897-905: the click on Clear
clearClick(h) ==
    LET stopped == IF h.targetHotkey # None THEN stopCapturingHotkey(h) ELSE h
    IN  IF stopped.threw
        THEN stopped
        ELSE syncHotkeyData([stopped EXCEPT !.targetHotkey = None,
                                            !.combo = Combo(<<>>)])

\* part_002:369-385 with initLocalKey (302-330, fix = true): the stored combo is
\* taken when it parses and is valid, and the default otherwise
initializeHotkey(h) ==
    IF storedCombo \in {Absent, Empty} \/ storedCombo = Garbage
       \/ ~validateCombo(storedCombo)
    THEN syncHotkeyData([h EXCEPT !.combo = defaultCombo])
    ELSE syncHotkeyData([h EXCEPT !.combo = Combo(storedCombo.keys)])

\* the variables take the state a handler leaves
HotkeyBecomes(h) ==
    /\ targetHotkey' = h.targetHotkey
    /\ stopTimeout' = h.stopTimeout
    /\ timers' = h.timers
    /\ listening' = h.listening
    /\ combo' = h.combo
    /\ previousCombo' = h.previousCombo
    /\ bound' = h.bound
    /\ storedCombo' = h.storedCombo

HotkeyLogged(op, event, h) ==
    [op |-> op, event |-> event, stops |-> h.stops,
     nullStop |-> h.threw /\ h.stops > 0]

\* the player, the registry and the wait, which the settings of the hotkey leave
\* alone
besideHotkeys ==
    <<isEnabled, exploredTracks, storedExplored, storedStatus, barActive, loopVars,
      pasting, playerData, now, pending, clipboard, last, sessionMarks, skippedId,
      dataStale, prevStale, fresh, anchor, waitVars>>

\* the granularity of the clock of the settings
clockStep == editTimeoutAfter \div 3

\* part_002:1006-1008: main is about to call initializeLocalData, whose first
\* parts (336-368) find nothing stored
InitHotkeys ==
    /\ WaitNotStarted
    /\ targetHotkey = None
    /\ stopTimeout = NoTimer
    /\ timers = {}
    /\ listening = FALSE
    /\ combo = defaultCombo
    /\ previousCombo = Null
    /\ bound = {}
    /\ storedCombo \in StoredComboAtStart
    /\ idle = 0
    /\ hotkeyLog = NoHotkeyLog
    /\ clipboard = Untracked
    /\ isEnabled = TRUE
    /\ exploredTracks = <<>>
    /\ storedExplored = syncExploredData(<<>>)
    /\ storedStatus = syncEnabledData(TRUE)
    /\ barActive = TRUE
    /\ previousPlayerState = Null
    /\ totalRoughTrackProgress = 0
    /\ currentRoughTrackProgress = 0
    /\ trackJustSaved = FALSE
    /\ pc = "init"
    /\ pasting = FALSE
    /\ playerData = Null
    /\ now = 0
    /\ pending = "tick"
    /\ last = Quiet("init")
    /\ boot = [ready |-> TRUE, loads |-> 0]
    /\ sessionMarks = 0
    /\ skippedId = None
    /\ dataStale = FALSE
    /\ prevStale = FALSE
    /\ fresh = FALSE
    /\ anchor = NoAnchor

\* part_002:369-385: the end of initializeLocalData
initializeLocalDataHotkeys ==
    /\ pc = "init"
    /\ HotkeyBecomes(initializeHotkey(HotkeyState))
    /\ hotkeyLog' = HotkeyLogged("init", None, initializeHotkey(HotkeyState))
    /\ pc' = "loop"
    /\ boot' = [boot EXCEPT !.loads = @ + 1]
    /\ UNCHANGED <<idle, besideHotkeys>>

\* part_002:888-895
EditButtonClick ==
    /\ pc = "loop"
    /\ HotkeyBecomes(editClick(HotkeyState))
    /\ hotkeyLog' = HotkeyLogged("edit", None, editClick(HotkeyState))
    /\ idle' = 0
    /\ UNCHANGED <<pc, boot, besideHotkeys>>

\* part_002:897-905
ClearButtonClick ==
    /\ pc = "loop"
    /\ HotkeyBecomes(clearClick(HotkeyState))
    /\ hotkeyLog' = HotkeyLogged("clear", None, clearClick(HotkeyState))
    /\ idle' = 0
    /\ UNCHANGED <<pc, boot, besideHotkeys>>

\* part_002:801-827: a key event reaches the listener of the document
KeyEvent ==
    /\ listening
    /\ \E e \in KeyEvents :
          /\ HotkeyBecomes(handleKeyEvent(HotkeyState, e))
          /\ hotkeyLog' = HotkeyLogged("key", e, handleKeyEvent(HotkeyState, e))
    /\ idle' = 0
    /\ UNCHANGED <<pc, boot, besideHotkeys>>

\* a pending timer has run out: it is dropped and stopCapturingHotkey runs
TimerExpires ==
    /\ \E t \in timers :
          /\ t.left = 0
          /\ HotkeyBecomes(stopCapturingHotkey(
                 [HotkeyState EXCEPT !.timers = timers \ {t}]))
          /\ hotkeyLog' = HotkeyLogged("timer", None, stopCapturingHotkey(
                 [HotkeyState EXCEPT !.timers = timers \ {t}]))
    /\ idle' = 0
    /\ UNCHANGED <<pc, boot, besideHotkeys>>

\* time passes while a capture is on or a timer pending; no timer is overrun
TickHotkeys ==
    /\ targetHotkey # None \/ timers # {} \/ listening
    /\ \A t \in timers : t.left >= clockStep
    /\ idle <= editTimeoutAfter
    /\ idle' = idle + clockStep
    /\ timers' = {[id |-> t.id, left |-> t.left - clockStep] : t \in timers}
    /\ hotkeyLog' = [NoHotkeyLog EXCEPT !.op = "tick"]
    /\ UNCHANGED <<targetHotkey, stopTimeout, listening, combo, previousCombo, bound,
                   storedCombo, pc, boot, besideHotkeys>>

NextHotkeys ==
    \/ initializeLocalDataHotkeys
    \/ EditButtonClick
    \/ ClearButtonClick
    \/ KeyEvent
    \/ TimerExpires
    \/ TickHotkeys

SpecHotkeys == InitHotkeys /\ [][NextHotkeys]_vars

----------------------------------------------------------------------------
\* The loop of src/unnamed/part_001

\* part_001:249-337: one cycle of the loop of handleStates as a function of the
\* loop's variables, the registry, the flag, Spicetify.Player.data and
\* Date.now(): whether it throws, the variables after it, and whether it has
\* called markTrackAsExplored and next()
handleStates001(prev, total, current, saved, tracks, enabled, hostData, clock) ==
    LET data == IF enabled THEN hostData ELSE Null
        isTrack == data # Null /\ data.type = "track"
    IN IF isTrack /\ data.missing # None
       THEN [throws |-> TRUE, previousPlayerState |-> prev,
             totalRoughTrackProgress |-> total, currentRoughTrackProgress |-> current,
             trackJustSaved |-> saved, exploredTracks |-> tracks,
             marked |-> None, next |-> FALSE]
       ELSE LET state == IF isTrack
                         THEN [kind |-> "state", id |-> data.id,
                               is_playing |-> ~data.is_paused,
                               timestamp |-> data.timestamp]
                         ELSE Null
                sameState == (IF prev = Null THEN Undefined ELSE prev.timestamp)
                             = (IF state = Null THEN Undefined ELSE state.timestamp)
                counts == ~saved /\ prev # Null /\ prev.is_playing
                currentCounted ==
                    IF ~counts THEN current
                    ELSE IF sameState THEN clock - prev.timestamp
                    ELSE 0
                totalCounted ==
                    IF ~counts \/ sameState THEN total
                    ELSE IF state # Null THEN total + (state.timestamp - prev.timestamp)
                    ELSE total + current
                saves == counts
                         /\ currentCounted + totalCounted >= trackProgressThresholdMS
                tracksSaved == IF saves THEN Append(tracks, prev.id) ELSE tracks
                changes == ~sameState
                           /\ (IF state = Null THEN UndefinedId ELSE state.id)
                              # (IF prev = Null THEN UndefinedId ELSE prev.id)
            IN [throws |-> FALSE, previousPlayerState |-> state,
                totalRoughTrackProgress |-> IF changes THEN 0 ELSE totalCounted,
                currentRoughTrackProgress |-> IF changes THEN 0 ELSE currentCounted,
                trackJustSaved |-> IF changes THEN FALSE ELSE (saved \/ saves),
                exploredTracks |-> tracksSaved,
                marked |-> IF saves THEN prev.id ELSE None,
                next |-> changes /\ state # Null /\ state.id \in Range(tracksSaved)]

----------------------------------------------------------------------------
\* The earlier variants: src/explore-tracks/exploreTracks.js, which loads the
\* flag and ends, and src/unnamed/part_000, which loads the flag and the
\* registry and runs the loop (279-362).  They have no UI: the flag is never
\* read by the loop and nothing but the loop writes the registry.  A required
\* field the host leaves out is read as null.

\* part_000:286-289: any item the host has loaded gives a snapshot
HasTrack000(data) == data # Null

\* part_000:290-297
Throws000(data) == HasTrack000(data) /\ data.missing # None

\* part_000:299-304
ReadState000(data) ==
    IF HasTrack000(data)
    THEN [kind |-> "state", id |-> data.id, is_playing |-> ~data.is_paused,
          timestamp |-> data.timestamp]
    ELSE Null

\* part_000:353: check(state.trackURI.id) reads a property of null when the
\* cycle has no snapshot
SkipThrows000(changed, state) == changed /\ state = Null

\* exploreTracks.js:53-66: what initializeStatus makes of the text under
\* explore:status, with isEnabled = current when it is called.  JSON.parse is
\* not guarded; a parsed value counts if it is truthy and == 0 or == 1
initializeStatusJs(string, current) ==
    IF string = None
    THEN [throws |-> FALSE, isEnabled |-> current, stored |-> StringifyBool(current)]
    ELSE IF string \notin {"true", "false"}
    THEN [throws |-> TRUE, isEnabled |-> current, stored |-> string]
    ELSE LET parsed == (string = "true")
         IN IF parsed /\ (parsed = TRUE)
            THEN [throws |-> FALSE, isEnabled |-> parsed, stored |-> string]
            ELSE [throws |-> FALSE, isEnabled |-> current,
                  stored |-> StringifyBool(current)]

\* part_000:216-228: the same of initializeLocalData; a parsed value counts if it
\* is truthy and === true or === false
StatusLoaded000(string, current) ==
    IF string = None
    THEN [throws |-> FALSE, isEnabled |-> current, stored |-> StringifyBool(current)]
    ELSE IF string \notin {"true", "false"}
    THEN [throws |-> TRUE, isEnabled |-> current, stored |-> string]
    ELSE LET parsed == (string = "true")
         IN IF parsed /\ (parsed = TRUE \/ parsed = FALSE)
            THEN [throws |-> FALSE, isEnabled |-> parsed, stored |-> string]
            ELSE [throws |-> FALSE, isEnabled |-> current,
                  stored |-> StringifyBool(current)]

\* part_000:230-245: what initializeLocalData makes of the text under
\* explore:explored; null and the empty string count as nothing saved, any array is taken over as it is and not saved, anything
\* else that parses is replaced by the current registry
ExploredLoaded000(stored, current) ==
    IF stored \in {Absent, Empty}
    THEN [throws |-> FALSE, tracks |-> current, stored |-> StringifyArray(current)]
    ELSE LET parsed == JSONParse(stored)
         IN IF parsed.throws
            THEN [throws |-> TRUE, tracks |-> current, stored |-> stored]
            ELSE IF parsed.array
            THEN [throws |-> FALSE, tracks |-> parsed.items, stored |-> stored]
            ELSE [throws |-> FALSE, tracks |-> current,
                  stored |-> StringifyArray(current)]

\* discover() of the early variants when main calls the initializer
\* (exploreTracks.js:10, 80-81; part_000:99-100, 401-402): the declared
\* defaults, and in LocalStorage what an earlier run of any variant left
Init000 ==
    /\ WaitNotStarted
    /\ HotkeysNotStarted
    /\ clipboard = Untracked
    /\ isEnabled = TRUE
    /\ exploredTracks = <<>>
    /\ pc \in {"status", "init"}
    /\ storedStatus \in StoredStatusAtStart
    /\ storedExplored \in IF pc = "status" THEN {Absent} ELSE StoredExploredAtStart
    /\ barActive = TRUE
    /\ previousPlayerState = Null
    /\ totalRoughTrackProgress = 0
    /\ currentRoughTrackProgress = 0
    /\ trackJustSaved = FALSE
    /\ pasting = FALSE
    /\ playerData = Null
    /\ now = 0
    /\ pending = "tick"
    /\ last = Quiet("init")
    /\ boot = [ready |-> TRUE, loads |-> 0]
    /\ sessionMarks = 0
    /\ skippedId = None
    /\ dataStale = FALSE
    /\ prevStale = FALSE
    /\ fresh = FALSE
    /\ anchor = NoAnchor

\* exploreTracks.js:53-66, called from main (81), which ends there
initializeStatus ==
    /\ UNCHANGED <<clipboard, waitVars, hotkeyVars>>
    /\ pc = "status"
    /\ LET status == initializeStatusJs(storedStatus, isEnabled)
       IN /\ isEnabled' = status.isEnabled
          /\ storedStatus' = status.stored
          /\ pc' = IF status.throws THEN "failed" ELSE "done"
    /\ boot' = [boot EXCEPT !.loads = @ + 1]
    /\ last' = Quiet("other")
    /\ UNCHANGED <<exploredTracks, storedExplored, barActive, loopVars, pasting,
                   playerData, now, pending, sessionMarks, skippedId, dataStale,
                   prevStale, fresh, anchor>>

\* part_000:215-246, called from main (402), which goes on to handleStates (404)
\* unless JSON.parse has thrown
initializeLocalData000 ==
    /\ UNCHANGED <<clipboard, waitVars, hotkeyVars>>
    /\ pc = "init"
    /\ LET status == StatusLoaded000(storedStatus, isEnabled)
           explored == ExploredLoaded000(storedExplored, exploredTracks)
       IN /\ isEnabled' = status.isEnabled
          /\ storedStatus' = status.stored
          /\ IF status.throws
             THEN /\ pc' = "failed"
                  /\ UNCHANGED <<exploredTracks, storedExplored>>
             ELSE /\ pc' = IF explored.throws THEN "failed" ELSE "loop"
                  /\ exploredTracks' = explored.tracks
                  /\ storedExplored' = explored.stored
    /\ boot' = [boot EXCEPT !.loads = @ + 1]
    /\ last' = Quiet("other")
    /\ UNCHANGED <<barActive, loopVars, pasting, playerData, now, pending,
                   sessionMarks, skippedId, dataStale, prevStale, fresh, anchor>>

\* One cycle of the loop of handleStates of part_000 (285-361)
handleStates000 ==
    /\ UNCHANGED <<clipboard, waitVars, hotkeyVars>>
    /\ pc = "loop"
    /\ LET data == playerData IN
       IF Throws000(data)
       THEN /\ pc' = "dead"
            /\ last' = Quiet("throw")
            /\ pending' = "none"
            /\ UNCHANGED <<isEnabled, exploredTracks, storedExplored, storedStatus,
                           barActive, loopVars, pasting, playerData, now,
                           sessionMarks, skippedId, dataStale, prevStale, fresh, anchor,
                           boot>>
       ELSE LET state == ReadState000(data)
                prev == previousPlayerState
                same == SameState(prev, state)
                acc == Accrue(prev, state, same, totalRoughTrackProgress,
                              currentRoughTrackProgress, trackJustSaved, now)
                doMark == ThresholdMet(acc)
                tracks == IF doMark THEN markTrackAsExplored(exploredTracks, prev.id)
                          ELSE exploredTracks
                saved == SavedAfterMark(trackJustSaved, doMark)
                changed == TrackChanged(prev, state, same)
                thrown == SkipThrows000(changed, state)
                doNext == ~thrown /\ SkipsNew(changed, tracks, state)
                totalAfter == IF changed THEN 0 ELSE acc.total
            IN /\ doMark => Len(exploredTracks) < MaxReg
               /\ exploredTracks' = tracks
               /\ storedExplored' = IF doMark THEN syncExploredData(tracks)
                                    ELSE storedExplored
               /\ totalRoughTrackProgress' = totalAfter
               /\ currentRoughTrackProgress' = IF changed THEN 0 ELSE acc.current
               /\ trackJustSaved' = IF changed THEN FALSE ELSE saved
               /\ previousPlayerState' = IF thrown THEN prev ELSE state
               /\ pc' = IF thrown THEN "dead" ELSE "loop"
               /\ pending' = "none"
               /\ last' = [op |-> IF thrown THEN "throw" ELSE "cycle",
                           mark |-> IF doMark THEN prev.id ELSE None,
                           next |-> doNext,
                           changed |-> IdOf(state) # IdOf(prev),
                           same |-> same,
                           accrual |-> acc.kind,
                           stale |-> FALSE,
                           started |-> state # Null /\ fresh,
                           skippedMark |-> doMark /\ prev.id = skippedId,
                           accTotal |-> acc.total,
                           accCurrent |-> acc.current]
               /\ sessionMarks' = SessionMarksAfter(doMark, changed)
               /\ skippedId' = IF changed THEN (IF doNext THEN state.id ELSE None)
                               ELSE skippedId
               /\ fresh' = IF state # Null THEN FALSE ELSE fresh
               /\ prevStale' = FALSE
               /\ anchor' = IF thrown THEN anchor
                             ELSE AnchorAfter(prev, state, same, trackJustSaved, totalAfter)
               /\ UNCHANGED <<isEnabled, storedStatus, barActive, pasting,
                              playerData, now, dataStale, boot>>

\* The host of part_000 registers an event: playback stops, or a track is
\* loaded, restarted, paused, resumed or sought
HostEvent000 ==
    /\ UNCHANGED <<clipboard, waitVars, hotkeyVars>>
    /\ pc = "loop"
    /\ pending # "tick"
    /\ pending' = "event"
    /\ \E d \in Loaded(now) \cup {Null}, starts \in BOOLEAN :
          /\ d # playerData \/ starts
          /\ starts => d # Null
          /\ (d # Null /\ IdOf(d) # IdOf(playerData)) => starts
          /\ playerData' = d
          /\ fresh' = IF d # Null
                      THEN (starts \/ (fresh /\ IdOf(d) = IdOf(playerData)))
                      ELSE FALSE
    /\ last' = Quiet("other")
    /\ UNCHANGED <<isEnabled, exploredTracks, storedExplored, storedStatus, barActive,
                   loopVars, pc, pasting, now, sessionMarks, skippedId, dataStale,
                   prevStale, anchor, boot>>

Next000 ==
    \/ initializeStatus
    \/ initializeLocalData000
    \/ handleStates000
    \/ Tick
    \/ HostEvent000

Spec000 == Init000 /\ [][Next000]_vars

----------------------------------------------------------------------------
\* Properties

CycleDone == last.op = "cycle"
NoDuplicates(seq) == Cardinality(Range(seq)) = Len(seq)
HostOmitsField ==
    /\ playerData # Null
    /\ playerData.type = "track"
    /\ playerData.missing \in Fields

\* C1 (At-most-once discovery): between two resets of the totals, that is within
\* one session (the cycle that resets them still belonging to the session it
\* ends), markTrackAsExplored is invoked at most once, however many cycles and UI
\* actions follow the crossing of the threshold.
AtMostOnceDiscovery == sessionMarks <= 1

\* C1 witness: a cycle of a session that was marked earlier, still on a playing
\* track and past the threshold, has marked nothing.
AtMostOnceDiscoveryWitness ==
    /\ CycleDone
    /\ last.mark = None
    /\ sessionMarks = 1
    /\ trackJustSaved
    /\ IsPlaying(previousPlayerState)
    /\ now - previousPlayerState.timestamp >= trackProgressThresholdMS
    /\ Len(exploredTracks) < MaxReg

\* C2 (Reset-on-change): after a cycle whose current snapshot has another track id
\* than the previous one (no snapshot counting as an id of its own), whatever
\* their timestamps, both totals are 0 and trackJustSaved is false.
ResetOnChange ==
    (CycleDone /\ last.changed) =>
        /\ totalRoughTrackProgress = 0
        /\ currentRoughTrackProgress = 0
        /\ ~trackJustSaved

\* C3 (No double counting), as claimed: once two host events have been processed
\* in a run of one playing track, the committed total equals the host time from
\* the first timestamp of the run to the latest, t2 - t0.
NoDoubleCounting ==
    (anchor # NoAnchor /\ anchor.events = 2) =>
        totalRoughTrackProgress = anchor.span

\* C3, amended: in a run of one playing track the committed total exceeds the
\* total committed when the run's first timestamp t0 was observed by at most the
\* host time elapsed since t0, and by exactly that much as long as every host
\* event of the run was processed with trackJustSaved false.
NoDoubleCountingWhileUnmarked ==
    anchor # NoAnchor =>
        /\ totalRoughTrackProgress <= anchor.base + anchor.span
        /\ ~anchor.lag => totalRoughTrackProgress = anchor.base + anchor.span

\* C3 witness: t0 < t1 < t2 of one playing track have been processed, the last
\* by an authoritative commit, and the total is t2 - t0 > 0.
NoDoubleCountingWitness ==
    /\ CycleDone
    /\ last.accrual = "accurate"
    /\ anchor # NoAnchor
    /\ anchor.events = 2
    /\ ~anchor.lag
    /\ anchor.base = 0
    /\ anchor.span = 2 * ClockStep
    /\ totalRoughTrackProgress = anchor.span

\* C4 (Set semantics of marking): a cycle that marks an id the registry already
\* holds leaves the length of the registry and the persisted value unchanged.
MarkingIsSetInsertion ==
    [][(last'.op = "cycle" /\ last'.mark # None
            /\ Includes(exploredTracks, last'.mark)) =>
        (Len(exploredTracks') = Len(exploredTracks)
            /\ storedExplored' = storedExplored)]_vars

\* C5 (Registry uniqueness): the registry holds every track id at most once.
RegistryUnique == NoDuplicates(exploredTracks)

\* C6 (Skip on entering a discovered track): a cycle in which the track id
\* changes to an id of the registry invokes next(), with the totals reset to 0.
SkipOnEnteringDiscovered ==
    (CycleDone /\ last.changed
        /\ Includes(exploredTracks, IdOf(previousPlayerState))) =>
        /\ last.next
        /\ totalRoughTrackProgress = 0
        /\ currentRoughTrackProgress = 0

\* C7 (A skipped track accrues nothing): markTrackAsExplored is not invoked for a
\* track that next() was invoked for when it was entered; in particular not by
\* the cycle that polls its successor, whatever the timestamps of the two are.
SkippedTrackNotMarked ==
    (CycleDone /\ last.changed /\ ~last.same) => ~last.skippedMark

\* C8 (A discovered track is skipped whenever it plays again): the cycle that
\* first polls a playback the host has started (under a new timestamp) of a track
\* the registry holds invokes next(); a replay of the track that was playing is
\* such a start.
DiscoveredTrackSkippedOnStart ==
    (CycleDone /\ last.started /\ ~last.same
        /\ Includes(exploredTracks, IdOf(previousPlayerState))) =>
        last.next

\* C9 (Disabling pauses accrual): no cycle accrues, provisionally or for good, an
\* interval that begins before a stretch of time spent with the flag off.
DisabledTimeNotCounted == CycleDone => ~last.stale

\* C10 (Fatal data-integrity error): a cycle that finds the flag on and a loaded
\* track with a required field missing ends the loop and changes neither the loop
\* state nor the registry nor the persisted data; once the loop has ended it stays
\* ended, the loop state is frozen, and no step marks a track or invokes next().
FatalDataIntegrityError ==
    [][/\ (pc = "loop" /\ isEnabled /\ HostOmitsField
              /\ last'.op \in {"cycle", "throw"}) =>
           (pc' = "dead" /\ last'.op = "throw"
              /\ UNCHANGED <<loopVars, exploredTracks, storedExplored, storedStatus>>)
       /\ pc = "dead" =>
           (pc' = "dead" /\ last'.mark = None /\ ~last'.next /\ last'.op = "other"
              /\ UNCHANGED loopVars)
       /\ (pc = "loop" /\ pc' = "dead") => (isEnabled /\ HostOmitsField)]_vars

\* C10 witness: the loop has thrown in the middle of a session, on a host that
\* omits a field, and the UI has been used since.
FatalDataIntegrityErrorWitness ==
    /\ pc = "dead"
    /\ HostOmitsField
    /\ isEnabled
    /\ last.op = "other"
    /\ IsPlaying(previousPlayerState)
    /\ currentRoughTrackProgress > 0
    /\ exploredTracks # <<>>

\* C11 (Monotonicity): a cycle whose previous and current snapshots are both a
\* playing track of one and the same id does not lower totalRoughTrackProgress;
\* between two cycles nothing changes it, so the total at the end of a cycle is
\* at least the total at the end of the cycle before.
Monotonicity ==
    [][(/\ last'.op = "cycle"
        /\ IsPlaying(previousPlayerState)
        /\ IsPlaying(previousPlayerState')
        /\ previousPlayerState'.id = previousPlayerState.id) =>
           totalRoughTrackProgress' >= totalRoughTrackProgress]_vars

\* C11 witness: a host event of a track that stays playing has just raised the
\* total from 0 to the time the host reports.
MonotonicityWitness ==
    /\ CycleDone
    /\ last.accrual = "accurate"
    /\ ~last.changed
    /\ IsPlaying(previousPlayerState)
    /\ anchor # NoAnchor
    /\ anchor.events = 1
    /\ anchor.base = 0
    /\ totalRoughTrackProgress = ClockStep

\* C12 (Discovery fires exactly at the crossing): a cycle invokes
\* markTrackAsExplored if and only if trackJustSaved was false when it began and
\* the sum of the two totals after its accrual step is at least the threshold,
\* and it marks the id of the previous snapshot.
DiscoveryAtCrossing ==
    [][last'.op = "cycle" =>
          /\ (last'.mark # None) <=>
                (/\ ~trackJustSaved
                 /\ last'.accTotal + last'.accCurrent >= trackProgressThresholdMS)
          /\ last'.mark # None => last'.mark = IdOf(previousPlayerState)]_vars

\* C12 witness: a track was marked in the cycle in which the sum reached the
\* threshold exactly, and the cycles of the session before it marked nothing.
DiscoveryAtCrossingWitness ==
    /\ CycleDone
    /\ last.mark # None
    /\ last.accTotal + last.accCurrent = trackProgressThresholdMS
    /\ last.accTotal > 0
    /\ sessionMarks = 1

\* C13 (Persistence follows every mutation): once initializeLocalData has
\* completed, whenever the loop sleeps or a handler has returned the value under
\* explore:explored is the JSON text of the current exploredTracks.
PersistenceFollowsMutation ==
    pc \in {"loop", "dead"} =>
        storedExplored = [text |-> "array", items |-> exploredTracks]

\* C13 witness: a cycle has just marked a track into a registry that an import
\* had filled before, and the persisted value holds both ids.
PersistenceFollowsMutationWitness ==
    /\ CycleDone
    /\ last.mark = "A"
    /\ exploredTracks = <<"B", "A">>
    /\ storedExplored.text = "array"
    /\ storedExplored.items = <<"B", "A">>

\* C14 (Cleared only by the explicit reset): a step that is not clearItems loses
\* no id of the registry.
ClearedOnlyByReset ==
    [][~clearItems => Range(exploredTracks) \subseteq Range(exploredTracks')]_vars

\* C14 witness: before any time has passed, an import has added B to the
\* registry [A] loaded at the start, and A is still there.
ClearedOnlyByResetWitness ==
    /\ pc = "loop"
    /\ now = 0
    /\ ~pasting
    /\ sessionMarks = 0
    /\ exploredTracks = <<"A", "B">>

\* C15 (The loop stops only on the fatal error): a cycle that does not find the
\* flag on together with a loaded track that lacks a required field completes
\* and leaves the loop running.
LoopStopsOnlyOnFatalError ==
    [][(/\ pc = "loop"
        /\ last'.op \in {"cycle", "throw"}
        /\ ~(isEnabled /\ HostOmitsField)) =>
           (pc' = "loop" /\ last'.op = "cycle")]_vars

\* C15 witness: the loop has completed the cycle that found an item that is not
\* a track in place of the track that was playing.
LoopStopsOnlyOnFatalErrorWitness ==
    /\ CycleDone
    /\ pc = "loop"
    /\ isEnabled
    /\ playerData = Episode
    /\ previousPlayerState = Null
    /\ last.accrual = "stop"
    /\ last.changed

\* C16 (Loop state is owned by the loop): the UI handlers leave
\* previousPlayerState, the two totals and trackJustSaved unchanged, and so does
\* every step that is not a cycle of handleStates.
LoopStateOwnedByLoop ==
    [][/\ (onBarButtonPress \/ importItemsCall \/ importItemsResume
              \/ clearItems \/ exportItems) => UNCHANGED loopVars
       /\ last'.op # "cycle" => UNCHANGED loopVars]_vars

\* C16 witness: a UI handler other than the toggle has just returned in the
\* middle of a session, with an import waiting for the clipboard.
LoopStateOwnedByLoopWitness ==
    /\ pc = "loop"
    /\ last.op = "other"
    /\ pending = "none"
    /\ pasting
    /\ IsPlaying(previousPlayerState)
    /\ currentRoughTrackProgress > 0
    /\ totalRoughTrackProgress > 0

\* C17 (Initialization gate ordering): a cycle runs only in the loop, which is
\* entered after waitUntilReady has returned and the registry and the flag have
\* been loaded, once; they are loaded at no other time; and after a start-up
\* that has thrown nothing runs.
InitializationGate ==
    [][/\ last'.op \in {"cycle", "throw"} =>
              (pc = "loop" /\ boot.ready /\ boot.loads = 1)
       /\ boot'.loads # boot.loads =>
              (pc = "init" /\ boot.ready /\ boot.loads = 0 /\ boot'.loads = 1)
       /\ pc = "failed" => (pc' = "failed" /\ last'.op \notin {"cycle", "throw"})]_vars

\* C17 witness: the first cycle has run on the flag and the registry that were
\* persisted, after the wait and one load.
InitializationGateWitness ==
    /\ CycleDone
    /\ now = 0
    /\ pending = "none"
    /\ playerData = Null
    /\ boot.ready
    /\ boot.loads = 1
    /\ ~isEnabled
    /\ exploredTracks = <<"A">>

\* C18 (Accrual precondition): in a cycle whose previous snapshot is absent or
\* paused, or that begins with trackJustSaved true, the accrual step leaves both
\* totals as they were and nothing is marked.
AccrualPrecondition ==
    [][(/\ last'.op = "cycle"
        /\ \/ previousPlayerState = Null
           \/ ~previousPlayerState.is_playing
           \/ trackJustSaved) =>
           /\ last'.accTotal = totalRoughTrackProgress
           /\ last'.accCurrent = currentRoughTrackProgress
           /\ last'.accrual = None
           /\ last'.mark = None]_vars

\* C18 witness: a track that played for one clock step and was paused has been
\* resumed under a later timestamp, and the cycle that polled the resume has
\* left the total at what was played before the pause.
AccrualPreconditionWitness ==
    /\ CycleDone
    /\ last.accrual = None
    /\ ~last.changed
    /\ ~last.same
    /\ ~trackJustSaved
    /\ IsPlaying(previousPlayerState)
    /\ anchor # NoAnchor
    /\ anchor.events = 0
    /\ anchor.base = ClockStep
    /\ totalRoughTrackProgress = ClockStep
    /\ currentRoughTrackProgress = 0

\* C19 (Same-state cycles are provisional), as claimed: a cycle whose current
\* snapshot has the timestamp of the previous one leaves the total unchanged and
\* sets currentRoughTrackProgress to Date.now() minus that timestamp.
SameStateOverwrites ==
    [][(/\ last'.op = "cycle"
        /\ last'.same
        /\ previousPlayerState # Null) =>
           /\ totalRoughTrackProgress' = totalRoughTrackProgress
           /\ currentRoughTrackProgress' = now - previousPlayerState.timestamp]_vars

\* C19, amended: a cycle whose current snapshot has the timestamp of the previous
\* one leaves the total unchanged; it sets currentRoughTrackProgress to Date.now()
\* minus that timestamp, whatever its old value, if the previous snapshot is
\* playing and trackJustSaved is false, and leaves it unchanged otherwise.
SameStateOverwritesWhileAccruing ==
    [][(last'.op = "cycle" /\ last'.same) =>
           /\ totalRoughTrackProgress' = totalRoughTrackProgress
           /\ currentRoughTrackProgress' =
                 IF IsPlaying(previousPlayerState) /\ ~trackJustSaved
                 THEN now - previousPlayerState.timestamp
                 ELSE currentRoughTrackProgress]_vars

\* C19 witness: the second same-state cycle of a track that began to play two
\* clock steps ago has left the estimate at two steps, not at three.
SameStateOverwritesWitness ==
    /\ CycleDone
    /\ last.same
    /\ last.accrual = "rough"
    /\ ~trackJustSaved
    /\ totalRoughTrackProgress = 0
    /\ currentRoughTrackProgress = 2 * ClockStep
    /\ now - previousPlayerState.timestamp = 2 * ClockStep

\* C20 (Authoritative commit on a host event): a cycle with another timestamp
\* than the previous snapshot's, a playing previous snapshot, trackJustSaved
\* false and a current snapshot adds exactly the difference of the two
\* timestamps to the total and drops the provisional estimate; a mark of that
\* cycle goes to the previous track, also when the track changes.
AuthoritativeCommit ==
    [][(/\ last'.op = "cycle"
        /\ ~last'.same
        /\ IsPlaying(previousPlayerState)
        /\ ~trackJustSaved
        /\ previousPlayerState' # Null) =>
           /\ last'.accrual = "accurate"
           /\ last'.accTotal = totalRoughTrackProgress
                 + (previousPlayerState'.timestamp - previousPlayerState.timestamp)
           /\ last'.accCurrent = 0
           /\ last'.mark \in {None, previousPlayerState.id}
           /\ ~last'.changed =>
                 /\ totalRoughTrackProgress' = last'.accTotal
                 /\ currentRoughTrackProgress' = 0]_vars

\* C20 witness: a track change has been polled two clock steps after the outgoing
\* track began to play; the two steps were committed for it, without the
\* estimate of the cycles in between, before the reset.
AuthoritativeCommitWitness ==
    /\ CycleDone
    /\ last.accrual = "accurate"
    /\ last.changed
    /\ last.mark = None
    /\ last.accTotal = 2 * ClockStep
    /\ last.accCurrent = 0
    /\ totalRoughTrackProgress = 0
    /\ previousPlayerState # Null

\* C21 (Commit on stop): a cycle with a playing previous snapshot, trackJustSaved
\* false and no current snapshot adds the provisional estimate to the total,
\* marks the previous track exactly if that sum reaches the threshold, then
\* resets the totals and trackJustSaved, does not invoke next(), and leaves no
\* previous snapshot.
CommitOnStop ==
    [][(/\ last'.op = "cycle"
        /\ IsPlaying(previousPlayerState)
        /\ ~trackJustSaved
        /\ ReadData(isEnabled, playerData) \in {Null, Episode}) =>
           /\ last'.accrual = "stop"
           /\ last'.accTotal = totalRoughTrackProgress + currentRoughTrackProgress
           /\ last'.accCurrent = 0
           /\ (last'.mark # None) <=>
                 (totalRoughTrackProgress + currentRoughTrackProgress
                      >= trackProgressThresholdMS)
           /\ last'.mark \in {None, previousPlayerState.id}
           /\ totalRoughTrackProgress' = 0
           /\ currentRoughTrackProgress' = 0
           /\ ~trackJustSaved'
           /\ ~last'.next
           /\ previousPlayerState' = Null]_vars

\* C21 witness: the flag was switched off two clock steps into a track that
\* goes on playing in the host; the cycle has committed the estimate of the two
\* steps and has reset the session.
CommitOnStopWitness ==
    /\ CycleDone
    /\ ~isEnabled
    /\ IsTrack(playerData)
    /\ ~playerData.is_paused
    /\ last.accrual = "stop"
    /\ last.accTotal = 2 * ClockStep
    /\ last.accCurrent = 0
    /\ totalRoughTrackProgress = 0
    /\ previousPlayerState = Null

\* C22 (Stop is handled in part_000 too): in the loop of part_000 a cycle that
\* has a previous snapshot and finds no item loaded completes without throwing,
\* with the totals reset and no previous snapshot left.
StopHandled000 ==
    [][(/\ pc = "loop"
        /\ last'.op \in {"cycle", "throw"}
        /\ previousPlayerState # Null
        /\ playerData = Null) =>
           /\ pc' = "loop"
           /\ last'.op = "cycle"
           /\ totalRoughTrackProgress' = 0
           /\ currentRoughTrackProgress' = 0
           /\ previousPlayerState' = Null]_vars

\* C23 (Discovery does not wait for a host event): with the flag on and no UI in
\* use, a same-state cycle on a playing track at which the total plus
\* Date.now() minus the snapshot's timestamp has reached the threshold marks the
\* track, unless an earlier cycle has marked it: after the cycle the track is in
\* the registry.
DiscoveryWithoutHostEvent ==
    (/\ CycleDone
     /\ last.same
     /\ IsPlaying(previousPlayerState)
     /\ totalRoughTrackProgress + (now - previousPlayerState.timestamp)
            >= trackProgressThresholdMS) =>
        Includes(exploredTracks, previousPlayerState.id)

\* C24 (Order of steps inside a track-change cycle): in a cycle that polls a
\* track with another id and another timestamp than the previous snapshot's, the
\* threshold check sees the total after the commit and marks the previous id,
\* never the id of the current snapshot; the reset comes after the mark, so the
\* cycle ends with the totals at 0 and trackJustSaved false even if it marked;
\* and next() is decided on the registry as the mark left it.
OrderInTrackChange ==
    [][(/\ last'.op = "cycle"
        /\ last'.changed
        /\ ~last'.same
        /\ previousPlayerState' # Null) =>
           /\ (last'.mark # None) <=>
                 (/\ last'.accrual # None
                  /\ last'.accTotal + last'.accCurrent >= trackProgressThresholdMS)
           /\ last'.mark # None =>
                 /\ last'.mark = IdOf(previousPlayerState)
                 /\ last'.mark # previousPlayerState'.id
                 /\ exploredTracks' = Append(exploredTracks, last'.mark)
           /\ totalRoughTrackProgress' = 0
           /\ currentRoughTrackProgress' = 0
           /\ ~trackJustSaved'
           /\ last'.next <=> Includes(exploredTracks', previousPlayerState'.id)]_vars

\* C24 witness: the cycle that polled the change from A to B has committed the
\* interval that took A over the threshold, has marked A, and has left B with a
\* clean session.
OrderInTrackChangeWitness ==
    /\ CycleDone
    /\ last.changed
    /\ ~last.same
    /\ last.accrual = "accurate"
    /\ last.mark = "A"
    /\ ~last.next
    /\ IsPlaying(previousPlayerState)
    /\ previousPlayerState.id = "B"
    /\ exploredTracks = <<"A">>
    /\ totalRoughTrackProgress = 0
    /\ ~trackJustSaved

\* C25 (Skips are bounded and justified): a cycle invokes next() only with the
\* flag on and a current snapshot whose id differs from the previous snapshot's
\* and is in the registry at that moment, that is after the mark of the cycle.
SkipsJustified ==
    [][(last'.op = "cycle" /\ last'.next) =>
           /\ isEnabled
           /\ previousPlayerState' # Null
           /\ previousPlayerState'.id # IdOf(previousPlayerState)
           /\ Includes(exploredTracks', previousPlayerState'.id)]_vars

\* C25 witness: next() has been invoked for a track of the registry that
\* followed another track.
SkipsJustifiedWitness ==
    /\ CycleDone
    /\ last.next
    /\ last.changed
    /\ last.accrual = "accurate"
    /\ isEnabled
    /\ previousPlayerState # Null
    /\ previousPlayerState.id = "A"
    /\ Includes(exploredTracks, "A")

\* C26 (The previous snapshot always advances): after a cycle that did not throw
\* previousPlayerState is the snapshot of what the host had loaded in that cycle:
\* the id, the timestamp and the negation of is_paused of a track read with the
\* flag on, and nothing otherwise.
PreviousAlwaysAdvances ==
    [][last'.op = "cycle" =>
          previousPlayerState' =
              IF isEnabled /\ playerData # Null /\ playerData.type = "track"
              THEN [kind |-> "state", id |-> playerData.id,
                    is_playing |-> ~playerData.is_paused,
                    timestamp |-> playerData.timestamp]
              ELSE Null]_vars

\* C26 witness: the cycle that polled the pause of a track took the accrual
\* branch of a host event, and the paused snapshot is the previous one now.
PreviousAlwaysAdvancesWitness ==
    /\ CycleDone
    /\ last.accrual = "accurate"
    /\ ~last.changed
    /\ isEnabled
    /\ IsTrack(playerData)
    /\ playerData.is_paused
    /\ previousPlayerState # Null
    /\ ~previousPlayerState.is_playing
    /\ previousPlayerState.timestamp = playerData.timestamp
    /\ previousPlayerState.timestamp > 0

\* C27 (Unmarked sessions stay below the threshold): whenever trackJustSaved is
\* false after a cycle, the two totals add up to less than the threshold.
UnmarkedBelowThreshold ==
    (CycleDone /\ ~trackJustSaved) =>
        totalRoughTrackProgress + currentRoughTrackProgress < trackProgressThresholdMS

\* C27 witness: an unmarked session one clock step short of the threshold,
\* counting a committed interval and an estimate.
UnmarkedBelowThresholdWitness ==
    /\ CycleDone
    /\ ~trackJustSaved
    /\ last.accrual = "rough"
    /\ totalRoughTrackProgress > 0
    /\ currentRoughTrackProgress > 0
    /\ totalRoughTrackProgress + currentRoughTrackProgress
           = trackProgressThresholdMS - ClockStep

\* C28 (Disable then re-enable starts a new session): a cycle that reads a track
\* with the flag on and has no previous snapshot, as after any cycle with the
\* flag off, ends with the totals at 0 and trackJustSaved false and invokes
\* next() exactly if the track is in the registry.
ReenableStartsSession ==
    [][(/\ last'.op = "cycle"
        /\ previousPlayerState = Null
        /\ isEnabled
        /\ IsTrack(playerData)) =>
           /\ totalRoughTrackProgress' = 0
           /\ currentRoughTrackProgress' = 0
           /\ ~trackJustSaved'
           /\ last'.next <=> Includes(exploredTracks', playerData.id)]_vars

\* C28 witness: a track of the registry stayed loaded while time passed with the
\* flag off; the first cycle with the flag on again has invoked next().
ReenableStartsSessionWitness ==
    /\ CycleDone
    /\ isEnabled
    /\ prevStale
    /\ last.changed
    /\ last.accrual = None
    /\ last.next
    /\ ~last.started
    /\ IsPlaying(previousPlayerState)
    /\ Includes(exploredTracks, previousPlayerState.id)
    /\ totalRoughTrackProgress = 0

\* C29 (No lost update between import and discovery): a cycle that marks a track
\* while importItems is suspended at paste() leaves the id in exploredTracks and
\* in the persisted registry next to the ids that were there, and the step that
\* completes importItems keeps every id of the registry, adds the ids of a valid
\* clipboard and leaves the persisted registry equal to exploredTracks.
NoLostUpdate ==
    [][/\ (pasting /\ last'.op = "cycle" /\ last'.mark # None) =>
              /\ pasting'
              /\ Includes(exploredTracks', last'.mark)
              /\ Range(exploredTracks) \subseteq Range(exploredTracks')
              /\ storedExplored' = StringifyArray(exploredTracks')
       /\ (pasting /\ ~pasting') =>
              /\ Range(exploredTracks) \subseteq Range(exploredTracks')
              /\ storedExplored' = StringifyArray(exploredTracks')
              /\ \/ UNCHANGED <<exploredTracks, storedExplored>>
                 \/ \E clip \in Pasted(exploredTracks) :
                       /\ clip.valid
                       /\ Range(exploredTracks') =
                              Range(exploredTracks) \cup Range(clip.items)]_vars

\* C29 witness: importItems is suspended at paste(), and a cycle has just marked
\* B into the registry that held A; both are in the registry and persisted.
NoLostUpdateWitness ==
    /\ pasting
    /\ CycleDone
    /\ last.mark = "B"
    /\ exploredTracks = <<"A", "B">>
    /\ storedExplored = StringifyArray(<<"A", "B">>)

\* C30 (Import is a duplicate-free, idempotent union): the step that completes
\* importItems with a valid clipboard list leaves in exploredTracks exactly the
\* ids of the registry and of the clipboard, each once, and a second import of
\* the same list would change nothing; where importItems can complete, importing
\* the export of the registry leaves the set of ids as it is.
ImportIsUnion ==
    [][(pasting /\ ~pasting') =>
          /\ \/ UNCHANGED <<exploredTracks, storedExplored>>
             \/ \E clip \in Pasted(exploredTracks) :
                   /\ clip.valid
                   /\ Range(exploredTracks') =
                          Range(exploredTracks) \cup Range(clip.items)
                   /\ NoDuplicates(exploredTracks')
                   /\ Merge(exploredTracks', clip.items) = exploredTracks'
          /\ \A clip \in Pasted(exploredTracks) :
                clip.valid =>
                   LET once == Merge(exploredTracks, clip.items)
                   IN /\ Range(once) = Range(exploredTracks) \cup Range(clip.items)
                      /\ NoDuplicates(once)
                      /\ Merge(once, clip.items) = once
          /\ Exported(exploredTracks).valid
          /\ Range(Merge(exploredTracks, Exported(exploredTracks).items)) =
                 Range(exploredTracks)]_vars

\* C30 witness: before any time has passed and with nothing marked, importItems
\* has completed on the empty registry with the clipboard [B, B]; the registry
\* and the persisted value hold B once.
ImportIsUnionWitness ==
    /\ pc = "loop"
    /\ now = 0
    /\ ~pasting
    /\ sessionMarks = 0
    /\ last.op = "other"
    /\ exploredTracks = <<"B">>
    /\ storedExplored = StringifyArray(<<"B">>)

\* a text that importItems must reject: not JSON, JSON of something that is not
\* an array, or an array with an element that is not a track id
RejectedText(string) ==
    \/ string = Garbage
    \/ string = NotArray
    \/ /\ string.text = "array"
       /\ \E i \in 1..Len(string.items) : string.items[i] \notin TrackIds

\* C31 (Rejected import changes nothing): the step that completes importItems on
\* a clipboard text that is not JSON, not an array or holds an element that is
\* not a track id leaves exploredTracks and the persisted registry as they
\* were, and the handler returns with the loop where it was.
RejectedImportChangesNothing ==
    [][(pasting /\ ~pasting' /\ RejectedText(clipboard)) =>
          /\ UNCHANGED <<exploredTracks, storedExplored>>
          /\ pc' = pc]_vars

\* C31 witness: importItems has completed on the clipboard [A, short] with B
\* in the registry; the registry and the persisted value still hold B alone.
RejectedImportChangesNothingWitness ==
    /\ ~pasting
    /\ last.op = "other"
    /\ clipboard = StringifyArray(<<"A", Short>>)
    /\ exploredTracks = <<"B">>
    /\ storedExplored = StringifyArray(<<"B">>)

\* C32 (Enabled flag stays in sync and survives a restart): once
\* initializeLocalData has loaded the flag, explore:status holds the JSON text of
\* isEnabled and the playbar button is active exactly if isEnabled is true;
\* onBarButtonPress negates the flag; and initializeLocalData takes over a
\* persisted true or false as it is and leaves it persisted.
EnabledInSync ==
    [][/\ boot'.loads >= 1 =>
              /\ storedStatus' = StringifyBool(isEnabled')
              /\ barActive' = isEnabled'
       /\ onBarButtonPress => isEnabled' = ~isEnabled
       /\ (pc = "init" /\ pc' # "init" /\ storedStatus \in {"true", "false"}) =>
              /\ isEnabled' = (storedStatus = "true")
              /\ storedStatus' = storedStatus]_vars

\* C32 witness: the extension has started on a persisted false; before the
\* first cycle of the loop the flag is off, persisted as false, and the button
\* inactive.
EnabledInSyncWitness ==
    /\ pc = "loop"
    /\ boot.loads = 1
    /\ now = 0
    /\ pending = "tick"
    /\ last.op = "other"
    /\ ~isEnabled
    /\ storedStatus = "false"
    /\ ~barActive

\* C35 (The part_001 and part_002 variants of handleStates are equivalent): every
\* cycle of the loop of part_002 throws exactly if the cycle of part_001 throws
\* on the same loop variables, registry, flag, host data and clock, and
\* otherwise leaves the previous snapshot, the committed total, the provisional
\* estimate, the marked flag and the registry that the cycle of part_001
\* leaves, with the same calls of markTrackAsExplored and next().
VariantsEquivalent ==
    [][(pc = "loop" /\ last'.op \in {"cycle", "throw"}) =>
          LET cycle == handleStates001(previousPlayerState, totalRoughTrackProgress,
                                       currentRoughTrackProgress, trackJustSaved,
                                       exploredTracks, isEnabled, playerData, now)
          IN /\ cycle.throws <=> last'.op = "throw"
             /\ cycle.throws <=> pc' = "dead"
             /\ previousPlayerState' = cycle.previousPlayerState
             /\ totalRoughTrackProgress' = cycle.totalRoughTrackProgress
             /\ currentRoughTrackProgress' = cycle.currentRoughTrackProgress
             /\ trackJustSaved' = cycle.trackJustSaved
             /\ exploredTracks' = cycle.exploredTracks
             /\ last'.mark = cycle.marked
             /\ last'.next = cycle.next]_vars

\* C35 witness: while A played the host changed to B, which is in the registry;
\* the cycle has committed the interval the host reports, has reset the session
\* and has called next().
VariantsEquivalentWitness ==
    /\ CycleDone
    /\ isEnabled
    /\ last.accrual = "accurate"
    /\ last.changed
    /\ last.next
    /\ last.accTotal = ClockStep
    /\ IsPlaying(previousPlayerState)
    /\ previousPlayerState.id = "B"
    /\ Includes(exploredTracks, "B")
    /\ totalRoughTrackProgress = 0

\* C36 (Readiness wait of part_002 is bounded): waitUntilReady returns at the
\* first check that finds every method of the host loaded; when it throws it has
\* shown exactly 4 warnings, doubled maxTries from 200 to 3200 and slept 3199
\* times; and it never sleeps more often than that.
ReadinessWaitBounded ==
    [][/\ (waitPc = "check" /\ spiceDependencies.all) => waitPc' = "returned"
       /\ waitPc' = "returned" => spiceDependencies.all
       /\ waitPc' = "thrown" =>
              /\ waitLog'.warnings = 4
              /\ maxTries' = 3200
              /\ waitLog'.sleeps = 3199
       /\ waitLog'.sleeps <= 3199]_vars

\* the key event of the last step is the keydown of a key that is no modifier
StoringKey(log) ==
    /\ log.op = "key"
    /\ log.event.type = "keydown"
    /\ ~IsModifier(log.event.key)

\* what the steps of a capture do, and what is bound once the hotkey is read:
\* the keydown of a key that is no modifier stores, persists and binds its combo
\* in place of the previous one and ends the capture; any other key event goes
\* on with it; the timer ends it editTimeoutAfter after the last key event (or
\* the start) with the combo as it was; no capture is on for longer than that
\* without a key event; and exactly the current combo is bound
CaptureSteps ==
    /\ StoringKey(hotkeyLog') =>
          /\ targetHotkey # None
          /\ combo' = Captured(hotkeyLog'.event)
          /\ storedCombo' = StringifyCombo(combo')
          /\ bound' = {combo'}
          /\ combo # combo' => combo \notin bound'
          /\ targetHotkey' = None
    /\ (hotkeyLog'.op = "key" /\ ~StoringKey(hotkeyLog')) =>
          /\ targetHotkey' = targetHotkey
          /\ targetHotkey # None
          /\ combo' = combo
          /\ storedCombo' = storedCombo
    /\ hotkeyLog'.op = "timer" =>
          /\ targetHotkey # None
          /\ targetHotkey' = None
          /\ idle = editTimeoutAfter
          /\ combo' = combo
          /\ storedCombo' = storedCombo
          /\ bound' = bound
    /\ targetHotkey' # None => idle' <= editTimeoutAfter
    /\ pc' = "loop" => bound' = {combo'} /\ previousCombo' = combo'

\* C37 as stated (Hotkey capture ends one way or the other): a capture that
\* the Edit button started ends either by the keydown of a key that is no
\* modifier, which stores, persists and binds the new combo in place of the
\* previous one, or by itself 3000 ms after the last key event with the stored
\* combo unchanged, and in no other way; after any edits and clears exactly the
\* current combo is bound (previousCombo = combo).
CaptureEndsOneWayOrTheOther ==
    [][/\ CaptureSteps
       /\ (targetHotkey # None /\ targetHotkey' = None) =>
              \/ StoringKey(hotkeyLog')
              \/ hotkeyLog'.op = "timer"]_vars

\* C37 amended: a capture ends in one of four ways: by the storing keydown, by
\* the timer 3000 ms after the last key event, by a second click on Edit, at
\* once and with the combo unchanged, or by a click on Clear, which stores,
\* persists and binds the empty combo; exactly the current combo is bound.
CaptureEndsFourWays ==
    [][/\ CaptureSteps
       /\ (targetHotkey # None /\ targetHotkey' = None) =>
              \/ StoringKey(hotkeyLog')
              \/ hotkeyLog'.op = "timer"
              \/ /\ hotkeyLog'.op = "edit"
                 /\ combo' = combo
                 /\ storedCombo' = storedCombo
                 /\ bound' = bound
              \/ /\ hotkeyLog'.op = "clear"
                 /\ combo' = Combo(<<>>)
                 /\ storedCombo' = StringifyCombo(Combo(<<>>))
                 /\ bound' = {Combo(<<>>)}
       /\ (hotkeyLog'.op = "edit" /\ targetHotkey = None) => targetHotkey' # None]_vars

\* a capture has just ended by the keydown of the plus key with Control held,
\* whose combo is stored and is the one bound
CaptureEndsFourWaysWitness ==
    /\ StoringKey(hotkeyLog)
    /\ targetHotkey = None
    /\ combo = Combo(<<"ctrl", "plus">>)
    /\ bound = {combo}
    /\ storedCombo = StringifyCombo(combo)

\* C38 (Hotkey capture state is consistent): the listeners of keydown and keyup
\* are registered and a stop timer is pending exactly when targetHotkey is not
\* null, at most one stop timer is pending, and stopCapturingHotkey has never
\* run with targetHotkey null.
CaptureStateConsistent ==
    /\ listening <=> targetHotkey # None
    /\ timers # {} <=> targetHotkey # None
    /\ Cardinality(timers) <= 1
    /\ ~hotkeyLog.nullStop
    /\ hotkeyLog.stops <= 1

\* a capture is on whose timer a key event has set anew after time had passed
CaptureStateConsistentWitness ==
    /\ targetHotkey # None
    /\ hotkeyLog.op = "key"
    /\ listening
    /\ \E t \in timers : t.left = editTimeoutAfter /\ t.id = stopTimeout /\ t.id > 1

\* a text under explore:explored that is there and is not the JSON text of an
\* array of track ids
MalformedRegistry(string) ==
    \/ string = Empty
    \/ RejectedText(string)

\* C34 (Malformed persisted registry is fatal at startup and not repaired): on a
\* text under explore:explored that is there and is not the JSON text of an
\* array of track ids initializeLocalData throws and leaves the text and
\* exploredTracks as they are, and the loop never runs; with nothing under
\* explore:explored it sets and persists the empty registry and the loop starts.
MalformedRegistryIsFatal ==
    [][/\ (pc = "init" /\ pc' # "init" /\ MalformedRegistry(storedExplored)) =>
              /\ pc' = "failed"
              /\ UNCHANGED <<exploredTracks, storedExplored>>
       /\ (pc = "init" /\ pc' # "init" /\ storedExplored = Absent) =>
              /\ pc' = "loop"
              /\ exploredTracks' = <<>>
              /\ storedExplored' = StringifyArray(<<>>)
       /\ pc = "failed" => (pc' = "failed" /\ UNCHANGED loopVars)]_vars

\* C33 (Saved status round-trips in the early variants): when the initializer of
\* exploreTracks.js or of part_000 runs on the text that saveStatus wrote for a
\* value of isEnabled, it yields that value and leaves the text as it is.
StatusRoundTrips ==
    [][(pc \in {"status", "init"} /\ pc' # pc) =>
          \A enabled \in BOOLEAN :
             storedStatus = StringifyBool(enabled) =>
                /\ isEnabled' = enabled
                /\ storedStatus' = storedStatus]_vars

====
